---- MODULE Spec2Model ----
(***************************************************************************)
(* Model of the dual-limit rate limiter of envoy-lab:                      *)
(*   - the Authorizer (ext_authz, rate_limiter service): Check,            *)
(*     extractBotToken, checkRateLimit and the Redis script                *)
(*     checkRateLimitScript;                                               *)
(*   - the Usage Adjuster (ext_proc, usage_service): processRequestHeaders,*)
(*     processResponseHeaders, processResponse and reduceUsageScript;      *)
(*   - the Redis keyspace with per-key expiry, and wall-clock time.        *)
(* Strings that the code parses or formats are sequences of one-character  *)
(* strings; strings that are only compared are TLA+ strings.               *)
(***************************************************************************)
EXTENDS Integers, Sequences, FiniteSets, TLC

(***************************************************************************)
(* Bounds of the model.                                                    *)
(***************************************************************************)
\* number of HTTP requests the proxy handles in a behaviour
MaxReq == 2
\* largest value the operator provisions for rate_limit:{T} and quota:{T}
MaxLimit == 1
\* the clock advances in ticks; a unix second is TicksPerSec ticks long
TicksPerSec == 1
\* the clock stops after MaxTick ticks
MaxTick == 2
\* messages other than the two header messages on one Process stream
MaxOther == 1
\* characters of a candidate path after its first four
MaxSuffix == 5

Reqs == 1..MaxReq
Limits == 0..MaxLimit

(***************************************************************************)
(* Characters and decimal conversion.                                      *)
(***************************************************************************)
DigitChars == <<"0", "1", "2", "3", "4", "5", "6", "7", "8", "9">>
Digits == {DigitChars[i] : i \in 1..10}
Letters == {"a", "b", "c", "d", "e", "f", "g", "h", "i", "j", "k", "l", "m",
            "n", "o", "p", "q", "r", "s", "t", "u", "v", "w", "x", "y", "z",
            "A", "B", "C", "D", "E", "F", "G", "H", "I", "J", "K", "L", "M",
            "N", "O", "P", "Q", "R", "S", "T", "U", "V", "W", "X", "Y", "Z"}
\* the class [A-Za-z0-9_-] of botTokenRegex
TokenChars == Letters \cup Digits \cup {"_", "-"}

RECURSIVE FormatNat(_)
FormatNat(n) ==
    IF n < 10 THEN <<DigitChars[n + 1]>>
    ELSE FormatNat(n \div 10) \o <<DigitChars[(n % 10) + 1]>>

\* strconv.FormatInt(n, 10)
FormatInt(n) == IF n < 0 THEN <<"-">> \o FormatNat(0 - n) ELSE FormatNat(n)

DigitValue(c) == CHOOSE d \in 0..9 : DigitChars[d + 1] = c

RECURSIVE ParseNat(_)
ParseNat(s) ==
    IF Len(s) = 0 THEN 0
    ELSE 10 * ParseNat(SubSeq(s, 1, Len(s) - 1)) + DigitValue(s[Len(s)])

\* strconv.Atoi(s): an optional sign followed by one or more decimal digits
Atoi(s) ==
    LET signed == Len(s) > 0 /\ s[1] \in {"+", "-"}
        body == IF signed THEN SubSeq(s, 2, Len(s)) ELSE s
    IN  IF Len(body) > 0 /\ \A i \in 1..Len(body) : body[i] \in Digits
        THEN [err |-> FALSE,
              code |-> IF signed /\ s[1] = "-" THEN 0 - ParseNat(body)
                       ELSE ParseNat(body)]
        ELSE [err |-> TRUE, code |-> 0]

(***************************************************************************)
(* Partial functions: the Redis keyspace and the Go maps.                  *)
(***************************************************************************)
Put(f, k, v) == [x \in (DOMAIN f) \cup {k} |-> IF x = k THEN v ELSE f[x]]
Del(f, k) == [x \in (DOMAIN f) \ {k} |-> f[x]]
Has(f, k) == k \in DOMAIN f

(***************************************************************************)
(* Bot token extraction.                                                   *)
(***************************************************************************)
\* index of the first character at or after i that is not in class
RECURSIVE SkipWhile(_, _, _)
SkipWhile(s, i, class) ==
    IF i <= Len(s) /\ s[i] \in class THEN SkipWhile(s, i + 1, class) ELSE i

\* index of the first ":" of s at or after i, Len(s) + 1 when there is none
RECURSIVE IndexOfColon(_, _)
IndexOfColon(s, i) ==
    IF i > Len(s) \/ s[i] = ":" THEN i ELSE IndexOfColon(s, i + 1)

\* strings.Split(botToken, ":")[0]
botIDOf(botToken) == SubSeq(botToken, 1, IndexOfColon(botToken, 1) - 1)

\* Fault injection: the pattern without its closing "/"
botTokenRegexNoSlash(path) ==
    LET d0 == 5
        d1 == SkipWhile(path, d0, Digits)
        t0 == d1 + 1
        t1 == SkipWhile(path, t0, TokenChars)
    IN  IF /\ Len(path) >= 4
           /\ SubSeq(path, 1, 4) = <<"/", "b", "o", "t">>
           /\ d1 > d0
           /\ d1 <= Len(path) /\ path[d1] = ":"
           /\ t1 > t0
        THEN SubSeq(path, d0, t1 - 1)
        ELSE <<>>

\* Fault injection: the tenant part of the pattern as [A-Za-z0-9_-]+
botTokenRegexAnyID(path) ==
    LET d0 == 5
        d1 == SkipWhile(path, d0, TokenChars)
        t0 == d1 + 1
        t1 == SkipWhile(path, t0, TokenChars)
    IN  IF /\ Len(path) >= 4
           /\ SubSeq(path, 1, 4) = <<"/", "b", "o", "t">>
           /\ d1 > d0
           /\ d1 <= Len(path) /\ path[d1] = ":"
           /\ t1 > t0
           /\ t1 <= Len(path) /\ path[t1] = "/"
        THEN SubSeq(path, d0, t1 - 1)
        ELSE <<>>

\* botTokenRegex = ^/bot([0-9]+:[A-Za-z0-9_-]+)/ ; the submatch, or <<>>.
\* Both repetitions are greedy and are followed by a character outside
\* their class, so the match is found without backtracking.
botTokenRegex(path) ==
    LET d0 == 5
        d1 == SkipWhile(path, d0, Digits)
        t0 == d1 + 1
        t1 == SkipWhile(path, t0, TokenChars)
    IN  IF /\ Len(path) >= 4
           /\ SubSeq(path, 1, 4) = <<"/", "b", "o", "t">>
           /\ d1 > d0
           /\ d1 <= Len(path) /\ path[d1] = ":"
           /\ t1 > t0
           /\ t1 <= Len(path) /\ path[t1] = "/"
        THEN SubSeq(path, d0, t1 - 1)
        ELSE <<>>

extractBotToken(path) == botTokenRegex(path)

(***************************************************************************)
(* Inputs: the request paths and the upstream status lines.                *)
(***************************************************************************)
Path1 == <<"/", "b", "o", "t", "1", ":", "A", "_", "/", "x">>
PathNoDigits == <<"/", "b", "o", "t", "A", "B", "C", "/", "f", "o", "o">>
PathNoColon == <<"/", "b", "o", "t", "1", "2", "/", "x">>
PathNoSlash == <<"/", "b", "o", "t", "1", ":", "A">>
Paths == {Path1, PathNoDigits, PathNoColon, PathNoSlash}

BotIDs == {botIDOf(extractBotToken(p)) : p \in Paths} \ {<<>>}

\* x-request-id values that reach the Adjuster: a client may supply its own,
\* so two requests may carry the same one
RequestIDs == {<<"a">>, <<"b">>}

\* the x-request-id the proxy generates for its r-th request
UniqueID(r) == <<"r">> \o FormatInt(r)

\* values of the :status header of the upstream response
Statuses == {<<"2", "0", "0">>, <<"3", "0", "4">>, <<"5", "0", "0">>}

(***************************************************************************)
(* Redis commands on the keyspace db and the expiry table ex.              *)
(* A key is present while the clock is before its expiry tick.             *)
(***************************************************************************)
\* Fault injection: the new value is written with SET, the old one is lost
INCRBYOverwrites(db, k, n) == Put(db, k, n)

\* INCRBY key n: an absent key counts as 0; the expiry of the key is kept
INCRBY(db, k, n) == Put(db, k, (IF Has(db, k) THEN db[k] ELSE 0) + n)

\* EXPIRE key seconds, issued at tick t
EXPIRE(ex, k, seconds, t) == Put(ex, k, t + seconds * TicksPerSec)

\* Fault injection: an absent limit defaults to 50, as in the earlier script
GetLimitDefault50(db, k) ==
    [isnil |-> FALSE, n |-> IF Has(db, k) THEN db[k] ELSE 50]

\* tonumber(redis.call('GET', key)) of a provisioned limit: nil when absent
GetLimit(db, k) ==
    IF Has(db, k) THEN [isnil |-> FALSE, n |-> db[k]]
    ELSE [isnil |-> TRUE, n |-> 0]

\* tonumber(redis.call('GET', key)) or 0
GetOrZero(db, k) == IF Has(db, k) THEN db[k] ELSE 0

(***************************************************************************)
(* checkRateLimitScript, run atomically by Redis at tick t.                *)
(* KEYS = <<rate_limit:{T}, counter:{T}:{S}, usage:{T}, quota:{T}>>,       *)
(* ARGV = <<current_timestamp, request_cost>>.                             *)
(* The value is the script's reply and the keyspace it leaves.             *)
(***************************************************************************)
\* Fault injection: the rate comparison without the cost
RateExceededOffByOne(current_rate, cost, rate_limit) == current_rate > rate_limit

RateExceeded(current_rate, cost, rate_limit) == current_rate + cost > rate_limit

\* Fault injection: the quota comparison without the cost
QuotaExceededOffByOne(quota_used, cost, quota_limit) == quota_used > quota_limit

QuotaExceeded(quota_used, cost, quota_limit) == quota_used + cost > quota_limit

\* Fault injection: usage is not charged on success, as in the earlier
\* script that left the charge to the response phase
quotaStageNoCharge(db, ex, KEYS, cost, quota_used, quota_limit, current_rate) ==
    IF QuotaExceeded(quota_used, cost, quota_limit)
    THEN [ret |-> <<0, "quota_exceeded", quota_used, quota_limit, current_rate>>,
          db |-> db, ex |-> ex]
    ELSE [ret |-> <<1, "success", quota_used + cost, quota_limit, current_rate>>,
          db |-> db, ex |-> ex]

\* Fault injection: usage is charged before the quota check, with no rollback
quotaStageChargeFirst(db, ex, KEYS, cost, quota_used, quota_limit, current_rate) ==
    LET db2 == INCRBY(db, KEYS[3], cost)
    IN  IF db2[KEYS[3]] > quota_limit
        THEN [ret |-> <<0, "quota_exceeded", db2[KEYS[3]], quota_limit, current_rate>>,
              db |-> db2, ex |-> ex]
        ELSE [ret |-> <<1, "success", db2[KEYS[3]], quota_limit, current_rate>>,
              db |-> db2, ex |-> ex]

\* Fault injection: the usage increment also sets the 1 s expiry
quotaStageExpiringUsage(db, ex, KEYS, cost, quota_used, quota_limit, current_rate) ==
    IF QuotaExceeded(quota_used, cost, quota_limit)
    THEN [ret |-> <<0, "quota_exceeded", quota_used, quota_limit, current_rate>>,
          db |-> db, ex |-> ex]
    ELSE LET db2 == INCRBY(db, KEYS[3], cost)
         IN  [ret |-> <<1, "success", db2[KEYS[3]], quota_limit, current_rate>>,
              db |-> db2, ex |-> EXPIRE(ex, KEYS[3], 1, 0)]

\* lines 54-62: the quota check and the usage increment
quotaStage(db, ex, KEYS, cost, quota_used, quota_limit, current_rate) ==
    IF QuotaExceeded(quota_used, cost, quota_limit)
    THEN [ret |-> <<0, "quota_exceeded", quota_used, quota_limit, current_rate>>,
          db |-> db, ex |-> ex]
    ELSE LET db2 == INCRBY(db, KEYS[3], cost)
         IN  [ret |-> <<1, "success", db2[KEYS[3]], quota_limit, current_rate>>,
              db |-> db2, ex |-> ex]

\* Fault injection: the quota is checked before the rate slot is charged
rateStageQuotaFirst(db, ex, KEYS, cost, t, rate_limit, quota_used, quota_limit) ==
    LET current_rate == GetOrZero(db, KEYS[2])
    IN  IF RateExceeded(current_rate, cost, rate_limit)
        THEN [ret |-> <<0, "rate_exceeded", quota_used, quota_limit, current_rate>>,
              db |-> db, ex |-> ex]
        ELSE IF QuotaExceeded(quota_used, cost, quota_limit)
        THEN [ret |-> <<0, "quota_exceeded", quota_used, quota_limit, current_rate>>,
              db |-> db, ex |-> ex]
        ELSE quotaStage(INCRBY(db, KEYS[2], cost), EXPIRE(ex, KEYS[2], 1, t),
                        KEYS, cost, quota_used, quota_limit, current_rate + cost)

\* lines 45-52: the rate check, the counter increment and its expiry
rateStage(db, ex, KEYS, cost, t, rate_limit, quota_used, quota_limit) ==
    LET current_rate == GetOrZero(db, KEYS[2])
    IN  IF RateExceeded(current_rate, cost, rate_limit)
        THEN [ret |-> <<0, "rate_exceeded", quota_used, quota_limit, current_rate>>,
              db |-> db, ex |-> ex]
        ELSE quotaStage(INCRBY(db, KEYS[2], cost), EXPIRE(ex, KEYS[2], 1, t),
                        KEYS, cost, quota_used, quota_limit, current_rate + cost)

checkRateLimitScript(db, ex, KEYS, ARGV, t) ==
    LET cost == ARGV[2]
        rate_limit == GetLimit(db, KEYS[1])
        quota_limit == GetLimit(db, KEYS[4])
    IN  IF rate_limit.isnil
        THEN [ret |-> <<0, "rate_exceeded", 0, 0, 0>>, db |-> db, ex |-> ex]
        ELSE IF quota_limit.isnil
        THEN [ret |-> <<0, "quota_exceeded", 0, 0, 0>>, db |-> db, ex |-> ex]
        ELSE rateStage(db, ex, KEYS, cost, t, rate_limit.n,
                       GetOrZero(db, KEYS[3]), quota_limit.n)

(***************************************************************************)
(* reduceUsageScript, run atomically by Redis.                             *)
(* KEYS = <<usage:{T}>>, ARGV = <<reduction_amount>>.                      *)
(***************************************************************************)
\* Fault injection: the reduction without the floor at zero
NewUsageNoFloor(current_usage, reduction) == current_usage - reduction

\* Fault injection: the refund script stores the usage it read
NewUsageIgnoresReduction(current_usage, reduction) == current_usage

\* Fault injection: the refund script adds the reduction
NewUsageAdds(current_usage, reduction) == current_usage + reduction

\* math.max(0, current_usage - reduction)
NewUsage(current_usage, reduction) ==
    IF current_usage - reduction > 0 THEN current_usage - reduction ELSE 0

\* Fault injection: the refund script creates an absent key with value 0
reduceUsageScriptCreates(db, ex, KEYS, ARGV) ==
    LET reduction == ARGV[1]
    IN  IF Has(db, KEYS[1])
        THEN LET new_usage == NewUsage(db[KEYS[1]], reduction)
             IN  [ret |-> <<1, new_usage>>,
                  db |-> Put(db, KEYS[1], new_usage), ex |-> Del(ex, KEYS[1])]
        ELSE [ret |-> <<0, 0>>, db |-> Put(db, KEYS[1], 0), ex |-> ex]

reduceUsageScript(db, ex, KEYS, ARGV) ==
    LET reduction == ARGV[1]
    IN  IF Has(db, KEYS[1])
        THEN LET new_usage == NewUsage(db[KEYS[1]], reduction)
             \* SET stores the value and discards any expiry of the key
             IN  [ret |-> <<1, new_usage>>,
                  db |-> Put(db, KEYS[1], new_usage), ex |-> Del(ex, KEYS[1])]
        ELSE [ret |-> <<0, 0>>, db |-> db, ex |-> ex]

(***************************************************************************)
(* Authorizer: keys, result parsing and the ext_authz responses.           *)
(***************************************************************************)
\* Fault injection: one rate counter per second for all tenants
generateKeysSharedCounter(botToken, currentTime) ==
    LET botID == botIDOf(botToken)
    IN  [RateLimit |-> <<"rate_limit", botID>>,
         Counter |-> <<"counter", <<>>, currentTime>>,
         UsageTotal |-> <<"usage", botID>>,
         QuotaLimit |-> <<"quota", botID>>]


\* Fault injection: the rate window is two seconds wide
generateKeysTwoSecondWindow(botToken, currentTime) ==
    LET botID == botIDOf(botToken)
    IN  [RateLimit |-> <<"rate_limit", botID>>,
         Counter |-> <<"counter", botID, 2 * (currentTime \div 2)>>,
         UsageTotal |-> <<"usage", botID>>,
         QuotaLimit |-> <<"quota", botID>>]

generateKeys(botToken, currentTime) ==
    LET botID == botIDOf(botToken)
    IN  [RateLimit |-> <<"rate_limit", botID>>,
         Counter |-> <<"counter", botID, currentTime>>,
         UsageTotal |-> <<"usage", botID>>,
         QuotaLimit |-> <<"quota", botID>>]

\* the rate limit the Authorizer reports; the script's reply does not carry it
DefaultRateLimit == 50

parseLuaResult(result, botToken) ==
    [Allowed |-> result[1] = 1,
     Reason |-> result[2],
     QuotaUsed |-> result[3],
     QuotaLimit |-> result[4],
     RateUsed |-> result[5],
     RateLimit |-> DefaultRateLimit,
     RetryAfter |-> IF result[2] = "quota_exceeded" THEN 3600 ELSE 1,
     BotToken |-> botToken]

\* Fault injection: x-quota-remaining carries the usage instead of what is
\* left of the quota
createAllowedResponseRemainingIsUsed(result) ==
    [code |-> "OK",
     httpStatus |-> 0,
     headers |-> << <<"x-bot-token", result.BotToken>>,
                    <<"x-quota-remaining", FormatInt(result.QuotaUsed)>>,
                    <<"x-quota-limit", FormatInt(result.QuotaLimit)>>,
                    <<"x-rate-limit", FormatInt(result.RateLimit)>>,
                    <<"content-type", "application/json">> >>,
     message |-> <<>>,
     body |-> <<>>]

createAllowedResponse(result) ==
    [code |-> "OK",
     httpStatus |-> 0,
     headers |-> << <<"x-bot-token", result.BotToken>>,
                    <<"x-quota-remaining",
                      FormatInt(result.QuotaLimit - result.QuotaUsed)>>,
                    <<"x-quota-limit", FormatInt(result.QuotaLimit)>>,
                    <<"x-rate-limit", FormatInt(result.RateLimit)>>,
                    <<"content-type", "application/json">> >>,
     message |-> <<>>,
     body |-> <<>>]

\* Fault injection: retry-after is 1 whatever the reason
RetryAfterHeaderAlwaysOne(httpStatus, reason) ==
    IF httpStatus = 429 THEN << <<"retry-after", "1">> >> ELSE <<>>

\* Fault injection: retry-after is added to every denied response
RetryAfterHeaderOnEveryDeny(httpStatus, reason) ==
    << <<"retry-after", IF reason = "quota_exceeded" THEN "3600" ELSE "1">> >>

\* the retry-after header, added to 429 responses only
RetryAfterHeader(httpStatus, reason) ==
    IF httpStatus = 429
    THEN << <<"retry-after", IF reason = "quota_exceeded" THEN "3600" ELSE "1">> >>
    ELSE <<>>

createDeniedResponse(httpStatus, reason, message) ==
    [code |-> "PermissionDenied",
     httpStatus |-> httpStatus,
     headers |-> << <<"x-rate-limit-reason", reason>> >>
                 \o RetryAfterHeader(httpStatus, reason)
                 \o << <<"content-type", "application/json">> >>,
     message |-> message,
     body |-> <<"{\"error\": \"", reason, "\", \"message\": \"", message, "\"}">>]

getErrorMessage(result) ==
    CASE result.Reason = "plan_not_found" ->
            <<"No active subscription found for this bot">>
      [] result.Reason = "subscription_expired" ->
            <<"Bot subscription has expired">>
      [] result.Reason = "quota_exceeded" ->
            <<"Bot quota exceeded (">> \o FormatInt(result.QuotaUsed) \o <<"/">>
            \o FormatInt(result.QuotaLimit) \o <<" requests used)">>
      [] result.Reason = "rate_exceeded" ->
            <<"Rate limit exceeded - too many requests per second">>
      [] OTHER -> <<"Rate limit exceeded">>

\* the response Check builds from the reply of the script
checkResponse(ret, botToken) ==
    LET result == parseLuaResult(ret, botToken)
    IN  IF result.Allowed THEN createAllowedResponse(result)
        ELSE createDeniedResponse(429, result.Reason, getErrorMessage(result))

\* value of the header named key in a list of <<key, value>> pairs; the
\* last occurrence wins, as in a loop that overwrites; dflt when absent
RECURSIVE HeaderValue(_, _, _)
HeaderValue(headers, key, dflt) ==
    IF Len(headers) = 0 THEN dflt
    ELSE IF headers[Len(headers)][1] = key THEN headers[Len(headers)][2]
    ELSE HeaderValue(SubSeq(headers, 1, Len(headers) - 1), key, dflt)

HasHeader(headers, key) == \E i \in 1..Len(headers) : headers[i][1] = key

(***************************************************************************)
(* Usage Adjuster: the paid statuses and the refund.                       *)
(***************************************************************************)
\* Fault injection: 304 is missing from the paid statuses
paidStatusCodesWithout304 == {200, 201, 202, 204, 206}

\* Fault injection: 500 counts as a paid status
paidStatusCodesWith500 == {200, 201, 202, 204, 206, 304, 500}

paidStatusCodes == {200, 201, 202, 204, 206, 304}

\* Fault injection: the refund is aimed at the rate counter of second 0
generateUsageKeysCounter(botID) == [UsageTotal |-> <<"counter", botID, 0>>]

generateUsageKeys(botID) == [UsageTotal |-> <<"usage", botID>>]

\* How a store call ends.  "ok": the script runs and its reply arrives.
\* "failed": the call returns an error and the script has not run.  "lost":
\* the script runs and the call returns an error, the connection or the
\* deadline having ended before the reply arrived.
StoreOutcomes == {"ok", "failed", "lost"}
StoreFailures == StoreOutcomes \ {"ok"}

\* processResponse: the keyspace it leaves and the branch it took
processResponse(db, ex, botToken, statusCode, store) ==
    LET requestCost == 1
        botID == botIDOf(botToken)
    IN  IF statusCode \in paidStatusCodes
        THEN [db |-> db, ex |-> ex, branch |-> "paid"]
        ELSE LET keys == generateUsageKeys(botID)
                 run == reduceUsageScript(db, ex, <<keys.UsageTotal>>,
                                          <<requestCost>>)
             IN  IF store = "failed"
                 THEN [db |-> db, ex |-> ex, branch |-> "failed"]
                 ELSE IF store = "lost"
                 THEN [db |-> run.db, ex |-> run.ex, branch |-> "failed"]
                 ELSE [db |-> run.db, ex |-> run.ex,
                       branch |-> IF run.ret[1] = 1 THEN "reduced"
                                  ELSE "not_found"]

(***************************************************************************)
(* State.                                                                  *)
(***************************************************************************)
VARIABLES
    now,            \* wall clock, in ticks
    redis,          \* Redis keyspace: key -> integer value
    expires,        \* Redis expiry table: key -> tick at which the key goes
    pc,             \* per request: how far the proxy has taken it
    botToken,       \* per request: Check's botToken
    currentTime,    \* per request: checkRateLimit's currentTime
    response,       \* per request: the CheckResponse returned to the proxy
    requestID,      \* per request: the x-request-id the proxy attached
    requestTokens,  \* Usage Adjuster: map[requestID]botToken
    requestQuotas,  \* Usage Adjuster: map[requestID]map[headerKey]headerValue
    upstream,       \* per request: the response headers the proxy sent on
    branch,         \* per request: what processResponseHeaders did with it
    httpAttrs,      \* per request: the HTTP attributes of the CheckRequest
    received,       \* per request: the messages Process received on its stream
    replied,        \* per request: the responses Process sent on its stream
    result,         \* the reply of a ReduceUsage run made on its own
    requestHeaders, \* per request: the request headers the proxy sent
    preReset        \* history: the requests allowed before the last usage reset

vars == <<now, redis, expires, pc, botToken, currentTime, response, requestID,
          requestTokens, requestQuotas, upstream, branch, httpAttrs, received,
          replied, result, requestHeaders, preReset>>

NoResponse ==
    [code |-> "none", httpStatus |-> 0, headers |-> <<>>, message |-> <<>>,
     body |-> <<>>]

\* req.GetAttributes().GetRequest().GetHttp(): nil, or attributes with a path
NilAttrs == [present |-> FALSE, path |-> <<>>]
HttpAttrs(path) == [present |-> TRUE, path |-> path]

\* the keys the operator provisions
LimitKeys == {<<"rate_limit", b>> : b \in BotIDs} \cup {<<"quota", b>> : b \in BotIDs}

\* time.Now().Unix() at tick t
Unix(t) == t \div TicksPerSec

(***************************************************************************)
(* Init: both services are started and have handled nothing; the operator  *)
(* has provisioned any subset of the limit keys.                           *)
(***************************************************************************)
Init ==
    /\ now = 0
    /\ \E K \in SUBSET LimitKeys : redis \in [K -> Limits]
    /\ expires = <<>>
    /\ pc = [r \in Reqs |-> "new"]
    /\ botToken = [r \in Reqs |-> <<>>]
    /\ currentTime = [r \in Reqs |-> 0]
    /\ response = [r \in Reqs |-> NoResponse]
    /\ requestID = [r \in Reqs |-> <<>>]
    /\ requestTokens = <<>>
    /\ requestQuotas = <<>>
    /\ upstream = [r \in Reqs |-> <<>>]
    /\ branch = [r \in Reqs |-> "none"]
    /\ httpAttrs = [r \in Reqs |-> NilAttrs]
    /\ received = [r \in Reqs |-> <<>>]
    /\ replied = [r \in Reqs |-> <<>>]
    /\ result = <<>>
    /\ requestHeaders = [r \in Reqs |-> <<>>]
    /\ preReset = {}

(***************************************************************************)
(* Time.  Redis removes a key once the clock reaches its expiry.           *)
(***************************************************************************)
Tick ==
    /\ now < MaxTick
    /\ now' = now + 1
    /\ LET gone == {k \in DOMAIN expires : expires[k] <= now + 1}
       IN  /\ redis' = [k \in (DOMAIN redis) \ gone |-> redis[k]]
           /\ expires' = [k \in (DOMAIN expires) \ gone |-> expires[k]]
    /\ UNCHANGED <<preReset, result, requestHeaders, pc, botToken, currentTime, response, requestID,
                   requestTokens, requestQuotas, upstream, branch, httpAttrs,
                   received, replied>>

(***************************************************************************)
(* Authorizer.  Check runs up to the store call in CheckCall and from the  *)
(* store call to its return in CheckRun; the clock may advance and other   *)
(* calls may run in between.  Requests arrive in the order of their index. *)
(***************************************************************************)
Arrives(r) == pc[r] = "new" /\ \A q \in 1..(r - 1) : pc[q] # "new"

\* Check, lines 57-61: the request has no HTTP attributes
CheckNoHttp(r) ==
    /\ Arrives(r)
    /\ pc' = [pc EXCEPT ![r] = "denied"]
    /\ response' = [response EXCEPT ![r] =
            createDeniedResponse(401, "missing_http_attributes",
                                 <<"No HTTP attributes found">>)]
    /\ UNCHANGED <<preReset, result, requestHeaders, now, redis, expires, botToken, currentTime, requestID,
                   requestTokens, requestQuotas, upstream, branch, httpAttrs,
                   received, replied>>

\* Check, lines 63-70, and checkRateLimit, lines 97-101
CheckCall(r, path) ==
    /\ Arrives(r)
    /\ httpAttrs' = [httpAttrs EXCEPT ![r] = HttpAttrs(path)]
    /\ LET token == extractBotToken(path)
       IN  IF token = <<>>
           THEN /\ pc' = [pc EXCEPT ![r] = "denied"]
                /\ response' = [response EXCEPT ![r] =
                        createDeniedResponse(401, "invalid_bot_token",
                            <<"Invalid or missing bot token in URL">>)]
                /\ UNCHANGED <<botToken, currentTime>>
           ELSE /\ pc' = [pc EXCEPT ![r] = "called"]
                /\ botToken' = [botToken EXCEPT ![r] = token]
                /\ currentTime' = [currentTime EXCEPT ![r] = Unix(now)]
                /\ UNCHANGED response
    /\ UNCHANGED <<preReset, result, requestHeaders, now, redis, expires, requestID, requestTokens,
                   requestQuotas, upstream, branch, received, replied>>

\* the script run of request r against the keyspace of this moment
ScriptRun(r) ==
    LET keys == generateKeys(botToken[r], currentTime[r])
    IN  checkRateLimitScript(redis, expires,
            <<keys.RateLimit, keys.Counter, keys.UsageTotal, keys.QuotaLimit>>,
            <<currentTime[r], 1>>, now)

\* checkRateLimit, lines 104-116, and Check, lines 79-83
CheckRun(r) ==
    /\ pc[r] = "called"
    /\ LET run == ScriptRun(r)
           resp == checkResponse(run.ret, botToken[r])
       IN  /\ redis' = run.db
           /\ expires' = run.ex
           /\ response' = [response EXCEPT ![r] = resp]
           /\ pc' = [pc EXCEPT ![r] = IF resp.code = "OK" THEN "allowed"
                                      ELSE "denied"]
    /\ UNCHANGED <<preReset, result, requestHeaders, now, botToken, currentTime, requestID, requestTokens,
                   requestQuotas, upstream, branch, httpAttrs, received,
                   replied>>

\* checkRateLimit, lines 104-113, and Check, lines 74-77: the store call
\* returns an error
CheckFail(r, store) ==
    /\ pc[r] = "called"
    /\ store \in StoreFailures
    /\ LET run == ScriptRun(r)
       IN  /\ redis' = IF store = "lost" THEN run.db ELSE redis
           /\ expires' = IF store = "lost" THEN run.ex ELSE expires
    /\ response' = [response EXCEPT ![r] =
            createDeniedResponse(500, "rate_limit_error",
                                 <<"Internal rate limiting error">>)]
    /\ pc' = [pc EXCEPT ![r] = "denied"]
    /\ UNCHANGED <<preReset, result, requestHeaders, now, botToken, currentTime, requestID, requestTokens,
                   requestQuotas, upstream, branch, httpAttrs, received,
                   replied>>

(***************************************************************************)
(* Usage Adjuster.  The proxy forwards an allowed request with the headers *)
(* the Authorizer added and an x-request-id, and later sends the headers   *)
(* of the upstream response.                                               *)
(***************************************************************************)
\* processRequestHeaders: the table it leaves
\* Fault injection: the entry is stored whatever the two headers hold
processRequestHeadersStoresAlways(tokens, quotas, headers) ==
    LET token == HeaderValue(headers, "x-bot-token", <<>>)
        id == HeaderValue(headers, "x-request-id", <<>>)
    IN  [tokens |-> Put(tokens, id, token),
         quotas |-> Put(quotas, id,
                        [remaining |-> HeaderValue(headers, "x-quota-remaining", <<>>),
                         limit |-> HeaderValue(headers, "x-quota-limit", <<>>),
                         rate |-> HeaderValue(headers, "x-rate-limit", <<>>)]),
         resp |-> [kind |-> "request_headers", setHeaders |-> <<>>]]

processRequestHeaders(tokens, quotas, headers) ==
    LET token == HeaderValue(headers, "x-bot-token", <<>>)
        id == HeaderValue(headers, "x-request-id", <<>>)
        quotaRemaining == HeaderValue(headers, "x-quota-remaining", <<>>)
        quotaLimit == HeaderValue(headers, "x-quota-limit", <<>>)
        rateLimit == HeaderValue(headers, "x-rate-limit", <<>>)
        resp == [kind |-> "request_headers", setHeaders |-> <<>>]
    IN  IF token # <<>> /\ id # <<>>
        THEN [tokens |-> Put(tokens, id, token),
              quotas |-> Put(quotas, id,
                             [remaining |-> quotaRemaining,
                              limit |-> quotaLimit,
                              rate |-> rateLimit]),
              resp |-> resp]
        ELSE [tokens |-> tokens, quotas |-> quotas, resp |-> resp]

\* Process, case RequestHeaders, for the allowed request r
ProcessRequestHeaders(r, id) ==
    /\ pc[r] = "allowed"
    /\ LET headers == response[r].headers \o << <<"x-request-id", id>> >>
           out == processRequestHeaders(requestTokens, requestQuotas, headers)
       IN  /\ requestTokens' = out.tokens
           /\ requestQuotas' = out.quotas
           /\ received' = [received EXCEPT ![r] = Append(@, "request_headers")]
           /\ replied' = [replied EXCEPT ![r] = Append(@, out.resp)]
    /\ requestID' = [requestID EXCEPT ![r] = id]
    /\ requestHeaders' = [requestHeaders EXCEPT ![r] =
            response[r].headers \o << <<"x-request-id", id>> >>]
    /\ pc' = [pc EXCEPT ![r] = "forwarded"]
    /\ UNCHANGED <<preReset, result, now, redis, expires, botToken, currentTime, response,
                   upstream, branch, httpAttrs>>

\* Fault injection: the entry of a response is left in the table
deleteEntryNever(table, id) == table

\* lines 154-165: the entry of requestID is deleted when there is one
deleteEntry(table, id) == IF id # <<>> THEN Del(table, id) ELSE table

\* Fault injection: the mirrored x-quota-remaining and x-quota-limit swapped
quotaSetHeadersSwapped(quotaHeaders) ==
    << <<"x-quota-remaining", quotaHeaders.limit>>,
       <<"x-quota-limit", quotaHeaders.remaining>>,
       <<"x-rate-limit", quotaHeaders.rate>> >>

\* the header mutation of the response-headers reply: the mirrored limit
\* headers, empty when the table has no entry
quotaSetHeaders(quotaHeaders) ==
    << <<"x-quota-remaining", quotaHeaders.remaining>>,
       <<"x-quota-limit", quotaHeaders.limit>>,
       <<"x-rate-limit", quotaHeaders.rate>> >>

\* line 137: statusCode := 200
DefaultStatusCode == 200

\* Fault injection: an absent or unparsable :status gives the zero value of
\* the parse, which is not a paid status
statusCodeOfParseOnly(headers) == Atoi(HeaderValue(headers, ":status", <<>>)).code

\* lines 137-144: the :status header as an integer, 200 when it is absent or
\* strconv.Atoi rejects it
statusCodeOf(headers) ==
    LET parsed == Atoi(HeaderValue(headers, ":status", <<>>))
    IN  IF HasHeader(headers, ":status") /\ ~parsed.err
        THEN parsed.code ELSE DefaultStatusCode

\* Fault injection: without an entry for the id, any stored token is taken
lookupTokenAnyEntry(tokens, id) ==
    IF id # <<>> /\ Has(tokens, id) THEN tokens[id]
    ELSE IF DOMAIN tokens # {} THEN tokens[CHOOSE k \in DOMAIN tokens : TRUE]
    ELSE <<>>

\* lines 152-159: the token stored under requestID, "" when there is none
lookupToken(tokens, id) ==
    IF id # <<>> /\ Has(tokens, id) THEN tokens[id] ELSE <<>>

\* processResponseHeaders: the table and the keyspace it leaves, and its reply
processResponseHeaders(tokens, quotas, db, ex, headers, store) ==
    LET statusCode == statusCodeOf(headers)
        id == HeaderValue(headers, "x-request-id", <<>>)
        token == lookupToken(tokens, id)
        quotaHeaders == IF id # <<>> /\ Has(quotas, id) THEN quotas[id]
                        ELSE [remaining |-> <<>>, limit |-> <<>>, rate |-> <<>>]
        tokens1 == deleteEntry(tokens, id)
        quotas1 == deleteEntry(quotas, id)
        resp == [kind |-> "response_headers",
                 setHeaders |-> quotaSetHeaders(quotaHeaders)]
    IN  IF token # <<>>
        THEN LET done == processResponse(db, ex, token, statusCode, store)
             IN  [tokens |-> tokens1, quotas |-> quotas1, db |-> done.db,
                  ex |-> done.ex, botToken |-> token, branch |-> done.branch,
                  resp |-> resp]
        ELSE [tokens |-> tokens1, quotas |-> quotas1, db |-> db, ex |-> ex,
              botToken |-> token, branch |-> "no_token", resp |-> resp]

\* the headers of the upstream response to request r
ResponseHeadersOf(r, status, withID) ==
    << <<":status", status>> >>
    \o (IF withID THEN << <<"x-request-id", requestID[r]>> >> ELSE <<>>)

\* Process, case ResponseHeaders, for the forwarded request r
ProcessResponseHeaders(r, status, withID, store) ==
    /\ pc[r] = "forwarded"
    /\ LET headers == ResponseHeadersOf(r, status, withID)
           out == processResponseHeaders(requestTokens, requestQuotas, redis,
                                         expires, headers, store)
       IN  /\ upstream' = [upstream EXCEPT ![r] = headers]
           /\ requestTokens' = out.tokens
           /\ requestQuotas' = out.quotas
           /\ redis' = out.db
           /\ expires' = out.ex
           /\ branch' = [branch EXCEPT ![r] = out.branch]
           /\ received' = [received EXCEPT ![r] = Append(@, "response_headers")]
           /\ replied' = [replied EXCEPT ![r] = Append(@, out.resp)]
    /\ pc' = [pc EXCEPT ![r] = "finished"]
    /\ UNCHANGED <<preReset, result, requestHeaders, now, botToken, currentTime, response, requestID, httpAttrs>>

\* the message types Process has no case for
OtherKinds == {"request_body", "response_body"}

\* messages of the stream of request r that are not header messages
OtherReceived(r) ==
    {i \in 1..Len(received[r]) : received[r][i] \in OtherKinds}

\* &extproc.ProcessingResponse{}
emptyResponse == [kind |-> "empty", setHeaders |-> <<>>]

\* Fault injection: the default case goes on to the next message without
\* sending a response
ProcessOtherNoReply(r, kind) ==
    /\ pc[r] = (IF kind = "request_body" THEN "forwarded" ELSE "finished")
    /\ Cardinality(OtherReceived(r)) < MaxOther
    /\ received' = [received EXCEPT ![r] = Append(@, kind)]
    /\ UNCHANGED <<preReset, result, requestHeaders, now, redis, expires, pc, botToken, currentTime, response,
                   requestID, requestTokens, requestQuotas, upstream, branch,
                   httpAttrs, replied>>

\* Process, default case: a body message on the stream of request r, the
\* request body before the response headers and the response body after
ProcessOther(r, kind) ==
    /\ pc[r] = (IF kind = "request_body" THEN "forwarded" ELSE "finished")
    /\ Cardinality(OtherReceived(r)) < MaxOther
    /\ received' = [received EXCEPT ![r] = Append(@, kind)]
    /\ replied' = [replied EXCEPT ![r] = Append(@, emptyResponse)]
    /\ UNCHANGED <<preReset, result, requestHeaders, now, redis, expires, pc, botToken, currentTime, response,
                   requestID, requestTokens, requestQuotas, upstream, branch,
                   httpAttrs>>

(***************************************************************************)
(* Specification.                                                          *)
(***************************************************************************)
Next ==
    \/ Tick
    \/ \E r \in Reqs : CheckNoHttp(r)
    \/ \E r \in Reqs, path \in Paths : CheckCall(r, path)
    \/ \E r \in Reqs : CheckRun(r)
    \/ \E r \in Reqs, id \in RequestIDs : ProcessRequestHeaders(r, id)
    \/ \E r \in Reqs, status \in Statuses, withID \in BOOLEAN :
            ProcessResponseHeaders(r, status, withID, "ok")

Spec == Init /\ [][Next]_vars

(***************************************************************************)
(* The operator may start a new period at any time by deleting usage:{T}.  *)
(* A tenant without a positive rate limit and quota is never allowed and   *)
(* never has usage to reset, so here every tenant is provisioned with both.*)
(* The proxy generates the request ids and the upstream echoes them.       *)
(***************************************************************************)
InitOps ==
    /\ Init
    /\ \A k \in LimitKeys : Has(redis, k) /\ redis[k] >= 1

OperatorDeleteUsage(b) ==
    /\ Has(redis, <<"usage", b>>)
    /\ redis' = Del(redis, <<"usage", b>>)
    /\ expires' = Del(expires, <<"usage", b>>)
    /\ UNCHANGED <<preReset, result, requestHeaders, now, pc, botToken, currentTime, response, requestID,
                   requestTokens, requestQuotas, upstream, branch, httpAttrs,
                   received, replied>>

NextOps ==
    \/ Tick
    \/ \E r \in Reqs : CheckNoHttp(r)
    \/ \E r \in Reqs, path \in Paths : CheckCall(r, path)
    \/ \E r \in Reqs : CheckRun(r)
    \/ \E r \in Reqs : ProcessRequestHeaders(r, UniqueID(r))
    \/ \E r \in Reqs, status \in Statuses :
            ProcessResponseHeaders(r, status, TRUE, "ok")
    \/ \E b \in BotIDs : OperatorDeleteUsage(b)

SpecOps == InitOps /\ [][NextOps]_vars

(***************************************************************************)
(* Store calls may fail.                                                   *)
(***************************************************************************)
NextFaults ==
    \/ Tick
    \/ \E r \in Reqs : CheckNoHttp(r)
    \/ \E r \in Reqs, path \in Paths : CheckCall(r, path)
    \/ \E r \in Reqs : CheckRun(r)
    \/ \E r \in Reqs, store \in StoreFailures : CheckFail(r, store)
    \/ \E r \in Reqs : ProcessRequestHeaders(r, UniqueID(r))
    \/ \E r \in Reqs, status \in Statuses, store \in StoreOutcomes :
            ProcessResponseHeaders(r, status, TRUE, store)

SpecFaults == Init /\ [][NextFaults]_vars

(***************************************************************************)
(* The proxy may send body messages on a Process stream.  Only requests    *)
(* that pass the Authorizer open a stream, so every request is well formed *)
(* and every tenant is provisioned.                                        *)
(***************************************************************************)
NextStream ==
    \/ Tick
    \/ \E r \in Reqs : CheckCall(r, Path1)
    \/ \E r \in Reqs : CheckRun(r)
    \/ \E r \in Reqs : ProcessRequestHeaders(r, UniqueID(r))
    \/ \E r \in Reqs, status \in Statuses :
            ProcessResponseHeaders(r, status, TRUE, "ok")
    \/ \E r \in Reqs, kind \in OtherKinds : ProcessOther(r, kind)

SpecStream == InitOps /\ [][NextStream]_vars

(***************************************************************************)
(* The refund call may fail, and the proxy goes on to send the response    *)
(* body on the stream.                                                     *)
(***************************************************************************)
NextRefund ==
    \/ Tick
    \/ \E r \in Reqs : CheckCall(r, Path1)
    \/ \E r \in Reqs : CheckRun(r)
    \/ \E r \in Reqs : ProcessRequestHeaders(r, UniqueID(r))
    \/ \E r \in Reqs, status \in Statuses, store \in StoreOutcomes :
            ProcessResponseHeaders(r, status, TRUE, store)
    \/ \E r \in Reqs : ProcessOther(r, "response_body")

SpecRefund == InitOps /\ [][NextRefund]_vars

(***************************************************************************)
(* The Adjuster at the grain of its accesses to the correlation table.     *)
(* Every Process stream runs on a goroutine of its own, and requestTokens  *)
(* and requestQuotas are Go maps that the handlers read and write with no  *)
(* lock.  A handler is inside the table from the step that enters it to    *)
(* the step that leaves it.  An access that overlaps another one is a data *)
(* race: it may take effect, be lost, or end the process (the runtime's    *)
(* fatal "concurrent map writes"), which empties the table.                *)
(***************************************************************************)
\* the streams whose handler is inside the table
InTable == {q \in Reqs : pc[q] \in {"inserting", "looking"}}

RaceOutcomes == {"applied", "lost", "fatal"}

\* branch after r enters the table: overlapping accesses are marked
EnterMarks(r) ==
    [q \in Reqs |-> IF InTable # {} /\ q \in InTable \cup {r} THEN "raced"
                    ELSE branch[q]]

\* every tenant has rate and quota for all the requests of a behaviour
InitTable ==
    /\ now = 0
    /\ redis = [k \in LimitKeys |-> MaxReq]
    /\ expires = <<>>
    /\ pc = [r \in Reqs |-> "new"]
    /\ botToken = [r \in Reqs |-> <<>>]
    /\ currentTime = [r \in Reqs |-> 0]
    /\ response = [r \in Reqs |-> NoResponse]
    /\ requestID = [r \in Reqs |-> <<>>]
    /\ requestTokens = <<>>
    /\ requestQuotas = <<>>
    /\ upstream = [r \in Reqs |-> <<>>]
    /\ branch = [r \in Reqs |-> "none"]
    /\ httpAttrs = [r \in Reqs |-> NilAttrs]
    /\ received = [r \in Reqs |-> <<>>]
    /\ replied = [r \in Reqs |-> <<>>]
    /\ result = <<>>
    /\ requestHeaders = [r \in Reqs |-> <<>>]
    /\ preReset = {}

\* processRequestHeaders up to line 108: the headers are read
EnterInsert(r) ==
    /\ pc[r] = "allowed"
    /\ pc' = [pc EXCEPT ![r] = "inserting"]
    /\ requestID' = [requestID EXCEPT ![r] = UniqueID(r)]
    /\ branch' = EnterMarks(r)
    /\ received' = [received EXCEPT ![r] = Append(@, "request_headers")]
    /\ requestHeaders' = [requestHeaders EXCEPT ![r] =
            response[r].headers \o << <<"x-request-id", UniqueID(r)>> >>]
    /\ UNCHANGED <<preReset, result, now, redis, expires, botToken, currentTime, response,
                   requestTokens, requestQuotas, upstream, httpAttrs, replied>>

\* processRequestHeaders from line 109: the two map writes and the reply
LeaveInsert(r, outcome) ==
    /\ pc[r] = "inserting"
    /\ outcome = "applied" \/ branch[r] = "raced"
    /\ LET headers == response[r].headers
                          \o << <<"x-request-id", requestID[r]>> >>
           out == processRequestHeaders(requestTokens, requestQuotas, headers)
       IN  /\ requestTokens' = CASE outcome = "applied" -> out.tokens
                                 [] outcome = "lost" -> requestTokens
                                 [] OTHER -> <<>>
           /\ requestQuotas' = CASE outcome = "applied" -> out.quotas
                                 [] outcome = "lost" -> requestQuotas
                                 [] OTHER -> <<>>
           /\ replied' = [replied EXCEPT ![r] = Append(@, out.resp)]
    /\ pc' = [pc EXCEPT ![r] = "forwarded"]
    /\ branch' = [branch EXCEPT ![r] = "none"]
    /\ UNCHANGED <<preReset, result, requestHeaders, now, redis, expires, botToken, currentTime, response,
                   requestID, upstream, httpAttrs, received>>

\* processResponseHeaders up to line 154: the headers are read
EnterLookup(r, status) ==
    /\ pc[r] = "forwarded"
    /\ pc' = [pc EXCEPT ![r] = "looking"]
    /\ upstream' = [upstream EXCEPT ![r] = ResponseHeadersOf(r, status, TRUE)]
    /\ branch' = EnterMarks(r)
    /\ received' = [received EXCEPT ![r] = Append(@, "response_headers")]
    /\ UNCHANGED <<preReset, result, requestHeaders, now, redis, expires, botToken, currentTime, response,
                   requestID, requestTokens, requestQuotas, httpAttrs, replied>>

\* processResponseHeaders from line 155: the lookups and deletes, then the
\* refund and the reply
LeaveLookup(r, outcome) ==
    /\ pc[r] = "looking"
    /\ outcome = "applied" \/ branch[r] = "raced"
    /\ LET out == processResponseHeaders(requestTokens, requestQuotas, redis,
                                         expires, upstream[r], "ok")
       IN  /\ requestTokens' = CASE outcome = "applied" -> out.tokens
                                 [] outcome = "lost" -> requestTokens
                                 [] OTHER -> <<>>
           /\ requestQuotas' = CASE outcome = "applied" -> out.quotas
                                 [] outcome = "lost" -> requestQuotas
                                 [] OTHER -> <<>>
           /\ redis' = IF outcome = "fatal" THEN redis ELSE out.db
           /\ expires' = IF outcome = "fatal" THEN expires ELSE out.ex
           /\ branch' = [branch EXCEPT ![r] =
                            IF outcome = "fatal" THEN "fatal" ELSE out.branch]
           /\ replied' = [replied EXCEPT ![r] =
                            IF outcome = "fatal" THEN @ ELSE Append(@, out.resp)]
    /\ pc' = [pc EXCEPT ![r] = "finished"]
    /\ UNCHANGED <<preReset, result, requestHeaders, now, botToken, currentTime, response, requestID, upstream,
                   httpAttrs, received>>

NextTable ==
    \/ Tick
    \/ \E r \in Reqs : CheckCall(r, Path1)
    \/ \E r \in Reqs : CheckRun(r)
    \/ \E r \in Reqs : EnterInsert(r)
    \/ \E r \in Reqs, outcome \in RaceOutcomes : LeaveInsert(r, outcome)
    \/ \E r \in Reqs, status \in Statuses : EnterLookup(r, status)
    \/ \E r \in Reqs, outcome \in RaceOutcomes : LeaveLookup(r, outcome)

SpecTable == InitTable /\ [][NextTable]_vars

(***************************************************************************)
(* The refund script on its own: luaScripts.ReduceUsage run against a      *)
(* keyspace in which usage:{T} is absent or holds any small value.         *)
(***************************************************************************)
MaxUsage == MaxReq
UsageKeys == {<<"usage", b>> : b \in BotIDs}

InitScript ==
    /\ now = 0
    /\ \E K \in SUBSET LimitKeys, U \in SUBSET UsageKeys :
           \E limits \in [K -> Limits], usage \in [U -> 0..MaxUsage] :
               redis = [k \in K \cup U |-> IF k \in K THEN limits[k]
                                          ELSE usage[k]]
    /\ expires = <<>>
    /\ pc = [r \in Reqs |-> "new"]
    /\ botToken = [r \in Reqs |-> <<>>]
    /\ currentTime = [r \in Reqs |-> 0]
    /\ response = [r \in Reqs |-> NoResponse]
    /\ requestID = [r \in Reqs |-> <<>>]
    /\ requestTokens = <<>>
    /\ requestQuotas = <<>>
    /\ upstream = [r \in Reqs |-> <<>>]
    /\ branch = [r \in Reqs |-> "none"]
    /\ httpAttrs = [r \in Reqs |-> NilAttrs]
    /\ received = [r \in Reqs |-> <<>>]
    /\ replied = [r \in Reqs |-> <<>>]
    /\ result = <<>>
    /\ requestHeaders = [r \in Reqs |-> <<>>]
    /\ preReset = {}

\* ReduceUsage.Run with the key of tenant botID and requestCost 1
ReduceUsageRun(botID) ==
    LET keys == generateUsageKeys(botID)
        run == reduceUsageScript(redis, expires, <<keys.UsageTotal>>, <<1>>)
    IN  /\ redis' = run.db
        /\ expires' = run.ex
        /\ result' = run.ret
        /\ UNCHANGED <<now, pc, botToken, currentTime, response, requestID,
                       requestTokens, requestQuotas, upstream, branch,
                       httpAttrs, received, replied, requestHeaders, preReset>>

NextScript ==
    \/ Tick
    \/ \E b \in BotIDs : ReduceUsageRun(b)

SpecScript == InitScript /\ [][NextScript]_vars

(***************************************************************************)
(* The Adjuster's handlers on arbitrary header sets: a request-headers     *)
(* message with or without x-bot-token and x-request-id, a                 *)
(* response-headers message with or without :status and x-request-id, and  *)
(* a response-headers message that arrives a second time.                  *)
(***************************************************************************)
HeaderForms == {"set", "empty", "absent"}

\* headers without the entries of key
WithoutHeader(headers, key) == SelectSeq(headers, LAMBDA h : h[1] # key)

\* headers with key in the given form: as it is, with value "", or removed
InForm(headers, key, form) ==
    CASE form = "set" -> headers
      [] form = "empty" -> WithoutHeader(headers, key) \o << <<key, <<>> >> >>
      [] OTHER -> WithoutHeader(headers, key)

\* the request headers of the allowed request r as they reach Process
RequestHeadersIn(r, tokenForm, idForm) ==
    InForm(InForm(response[r].headers \o << <<"x-request-id", UniqueID(r)>> >>,
                  "x-bot-token", tokenForm),
           "x-request-id", idForm)

\* Process, case RequestHeaders, for any form of the two headers
RequestHeadersMessage(r, tokenForm, idForm) ==
    /\ pc[r] = "allowed"
    /\ LET headers == RequestHeadersIn(r, tokenForm, idForm)
           out == processRequestHeaders(requestTokens, requestQuotas, headers)
       IN  /\ requestTokens' = out.tokens
           /\ requestQuotas' = out.quotas
           /\ requestHeaders' = [requestHeaders EXCEPT ![r] = headers]
           /\ requestID' = [requestID EXCEPT ![r] =
                                HeaderValue(headers, "x-request-id", <<>>)]
           /\ received' = [received EXCEPT ![r] = Append(@, "request_headers")]
           /\ replied' = [replied EXCEPT ![r] = Append(@, out.resp)]
    /\ pc' = [pc EXCEPT ![r] = "forwarded"]
    /\ UNCHANGED <<preReset, now, redis, expires, botToken, currentTime, response,
                   upstream, branch, httpAttrs, result>>

\* :status values of a response: not paid, paid, not an integer, empty
StatusValues == {<<"5", "0", "0">>, <<"2", "0", "0">>, <<"o", "k">>, <<>>}
\* a :status header with one of these values, or no :status header
StatusForms == {<<TRUE, v>> : v \in StatusValues} \cup {<<FALSE, <<>> >>}
\* x-request-id of a response: that of the request, one never seen, none
IDForms == {"same", "unknown", "absent"}
UnknownID == <<"z">>

\* the response headers of request r as they reach Process
ResponseHeadersIn(r, statusForm, idForm) ==
    (IF statusForm[1] THEN << <<":status", statusForm[2]>> >> ELSE <<>>)
    \o (CASE idForm = "same" -> << <<"x-request-id", requestID[r]>> >>
          [] idForm = "unknown" -> << <<"x-request-id", UnknownID>> >>
          [] OTHER -> <<>>)

\* Process, case ResponseHeaders, on the headers given
ResponseHeadersStep(r, headers, from, to) ==
    /\ pc[r] = from
    /\ LET out == processResponseHeaders(requestTokens, requestQuotas, redis,
                                         expires, headers, "ok")
       IN  /\ upstream' = [upstream EXCEPT ![r] = headers]
           /\ requestTokens' = out.tokens
           /\ requestQuotas' = out.quotas
           /\ redis' = out.db
           /\ expires' = out.ex
           /\ branch' = [branch EXCEPT ![r] = out.branch]
           /\ received' = [received EXCEPT ![r] = Append(@, "response_headers")]
           /\ replied' = [replied EXCEPT ![r] = Append(@, out.resp)]
    /\ pc' = [pc EXCEPT ![r] = to]
    /\ UNCHANGED <<preReset, now, botToken, currentTime, response, requestID, httpAttrs,
                   result, requestHeaders>>

ResponseHeadersMessage(r, statusForm, idForm) ==
    ResponseHeadersStep(r, ResponseHeadersIn(r, statusForm, idForm),
                        "forwarded", "finished")

\* the response-headers message of r arrives a second time
ResponseHeadersAgain(r) ==
    ResponseHeadersStep(r, upstream[r], "finished", "repeated")

\* request-headers messages in every form of x-bot-token and x-request-id
NextForms ==
    \/ Tick
    \/ \E r \in Reqs : CheckCall(r, Path1)
    \/ \E r \in Reqs : CheckRun(r)
    \/ \E r \in Reqs, tokenForm \in HeaderForms, idForm \in HeaderForms :
            RequestHeadersMessage(r, tokenForm, idForm)

\* the limits leave room for every request, as in InitTable
SpecForms == InitTable /\ [][NextForms]_vars

\* response-headers messages in every form of :status
NextStatus ==
    \/ Tick
    \/ \E r \in Reqs : CheckCall(r, Path1)
    \/ \E r \in Reqs : CheckRun(r)
    \/ \E r \in Reqs : ProcessRequestHeaders(r, UniqueID(r))
    \/ \E r \in Reqs, statusForm \in StatusForms :
            ResponseHeadersMessage(r, statusForm, "same")

SpecStatus == InitOps /\ [][NextStatus]_vars

\* response-headers messages in every form of x-request-id, and repeated
RepeatStatuses == {<<"5", "0", "0">>, <<"2", "0", "0">>}

NextRepeat ==
    \/ Tick
    \/ \E r \in Reqs : CheckCall(r, Path1)
    \/ \E r \in Reqs : CheckRun(r)
    \/ \E r \in Reqs : ProcessRequestHeaders(r, UniqueID(r))
    \/ \E r \in Reqs, status \in RepeatStatuses, idForm \in IDForms :
            ResponseHeadersMessage(r, <<TRUE, status>>, idForm)
    \/ \E r \in Reqs : ResponseHeadersAgain(r)

SpecRepeat == InitOps /\ [][NextRepeat]_vars

(***************************************************************************)
(* Token extraction on its own: one Check on every short path.             *)
(***************************************************************************)
\* the characters of the part of a path that follows its first four
PathChars == {"/", "1", "2", ":", "A", "-"}
\* what a path begins with: the pattern's prefix, a misspelt one, a shifted one
PathPrefixes == {<<"/", "b", "o", "t">>, <<"/", "b", "a", "t">>,
                 <<"x", "/", "b", "o", "t">>}
PathSuffixes == UNION {[1..n -> PathChars] : n \in 0..MaxSuffix}
CandidatePaths == {p \o s : p \in PathPrefixes, s \in PathSuffixes} \cup Paths

\* the first request arrives with any of the candidate paths
NextPaths == Arrives(1) /\ \E path \in CandidatePaths : CheckCall(1, path)

SpecPaths == InitTable /\ [][NextPaths]_vars

(***************************************************************************)
(* The refund store call and the end of the stream.  processResponse makes *)
(* the call with context.Background() (line 216), not with the context of  *)
(* the Process stream: RefundCallEnter is processResponseHeaders up to the *)
(* call, RefundCallReturn from the return of the call to stream.Send.      *)
(***************************************************************************)
NotPaidStatus == <<"5", "0", "0">>
PaidStatus == <<"2", "0", "0">>


\* Fault injection: the reply is sent when the store call is made, the
\* refund runs behind it
RefundCallEnterRepliesFirst(r) ==
    /\ pc[r] = "forwarded"
    /\ LET headers == ResponseHeadersOf(r, NotPaidStatus, TRUE)
           id == HeaderValue(headers, "x-request-id", <<>>)
       IN  /\ lookupToken(requestTokens, id) # <<>>
           /\ statusCodeOf(headers) \notin paidStatusCodes
           /\ upstream' = [upstream EXCEPT ![r] = headers]
           /\ requestTokens' = deleteEntry(requestTokens, id)
           /\ requestQuotas' = deleteEntry(requestQuotas, id)
           /\ received' = [received EXCEPT ![r] = Append(@, "response_headers")]
    /\ replied' = [replied EXCEPT ![r] = Append(@,
            [kind |-> "response_headers",
             setHeaders |-> quotaSetHeaders(
                 [remaining |-> HeaderValue(requestHeaders[r], "x-quota-remaining", <<>>),
                  limit |-> HeaderValue(requestHeaders[r], "x-quota-limit", <<>>),
                  rate |-> HeaderValue(requestHeaders[r], "x-rate-limit", <<>>)])])]
    /\ pc' = [pc EXCEPT ![r] = "refunding"]
    /\ branch' = [branch EXCEPT ![r] = "pending"]
    /\ UNCHANGED <<preReset, now, redis, expires, botToken, currentTime, response,
                   requestID, httpAttrs, result, requestHeaders>>

\* processResponseHeaders up to line 236: the entry is taken and deleted
\* and ReduceUsage.Run is called for a status that is not paid
RefundCallEnter(r) ==
    /\ pc[r] = "forwarded"
    /\ LET headers == ResponseHeadersOf(r, NotPaidStatus, TRUE)
           id == HeaderValue(headers, "x-request-id", <<>>)
       IN  /\ lookupToken(requestTokens, id) # <<>>
           /\ statusCodeOf(headers) \notin paidStatusCodes
           /\ upstream' = [upstream EXCEPT ![r] = headers]
           /\ requestTokens' = deleteEntry(requestTokens, id)
           /\ requestQuotas' = deleteEntry(requestQuotas, id)
           /\ received' = [received EXCEPT ![r] = Append(@, "response_headers")]
    /\ pc' = [pc EXCEPT ![r] = "refunding"]
    /\ branch' = [branch EXCEPT ![r] = "pending"]
    /\ UNCHANGED <<preReset, now, redis, expires, botToken, currentTime, response,
                   requestID, httpAttrs, replied, result, requestHeaders>>

\* the proxy cancels the stream of r, or its deadline passes, while the
\* store call is pending: the context of the stream is done
StreamCancelled(r) ==
    /\ pc[r] = "refunding"
    /\ pc' = [pc EXCEPT ![r] = "cancelled"]
    /\ UNCHANGED <<preReset, now, redis, expires, botToken, currentTime, response,
                   requestID, requestTokens, requestQuotas, upstream, branch,
                   httpAttrs, received, replied, result, requestHeaders>>

\* the store call returns, as it would without the cancellation since its
\* context is never done; stream.Send then fails on a cancelled stream and
\* Process returns.  The token is that of the entry taken, which with
\* distinct request ids is the token of r.
RefundCallReturn(r, store) ==
    /\ pc[r] \in {"refunding", "cancelled"}
    /\ LET done == processResponse(redis, expires, botToken[r],
                                   statusCodeOf(upstream[r]), store)
       IN  /\ redis' = done.db
           /\ expires' = done.ex
           /\ branch' = [branch EXCEPT ![r] = done.branch]
    /\ IF pc[r] = "refunding"
       THEN /\ replied' = [replied EXCEPT ![r] = Append(@,
                    [kind |-> "response_headers",
                     setHeaders |-> quotaSetHeaders(
                         [remaining |-> HeaderValue(requestHeaders[r], "x-quota-remaining", <<>>),
                          limit |-> HeaderValue(requestHeaders[r], "x-quota-limit", <<>>),
                          rate |-> HeaderValue(requestHeaders[r], "x-rate-limit", <<>>)])])]
            /\ pc' = [pc EXCEPT ![r] = "finished"]
       ELSE /\ replied' = replied
            /\ pc' = [pc EXCEPT ![r] = "closed"]
    /\ UNCHANGED <<preReset, now, botToken, currentTime, response, requestID,
                   requestTokens, requestQuotas, upstream, httpAttrs,
                   received, result, requestHeaders>>

NextCancel ==
    \/ Tick
    \/ \E r \in Reqs : CheckCall(r, Path1)
    \/ \E r \in Reqs : CheckRun(r)
    \/ \E r \in Reqs : ProcessRequestHeaders(r, UniqueID(r))
    \/ \E r \in Reqs : ProcessResponseHeaders(r, PaidStatus, TRUE, "ok")
    \/ \E r \in Reqs : RefundCallEnter(r)
    \/ \E r \in Reqs : StreamCancelled(r)
    \/ \E r \in Reqs, store \in StoreOutcomes : RefundCallReturn(r, store)

SpecCancel == InitOps /\ [][NextCancel]_vars

(***************************************************************************)
(* Two tenants.  Requests of tenants 1 and 2, whose x-request-id may be    *)
(* the same since a client may supply it; both tenants have room for every *)
(* request.                                                                *)
(***************************************************************************)
Path2 == <<"/", "b", "o", "t", "2", ":", "B", "_", "/", "x">>
TenantPaths == {Path1, Path2}
Tenants == {botIDOf(extractBotToken(p)) : p \in TenantPaths}
TenantLimitKeys ==
    {<<"rate_limit", b>> : b \in Tenants} \cup {<<"quota", b>> : b \in Tenants}

InitTenants ==
    /\ now = 0
    /\ redis = [k \in TenantLimitKeys |-> MaxReq]
    /\ expires = <<>>
    /\ pc = [r \in Reqs |-> "new"]
    /\ botToken = [r \in Reqs |-> <<>>]
    /\ currentTime = [r \in Reqs |-> 0]
    /\ response = [r \in Reqs |-> NoResponse]
    /\ requestID = [r \in Reqs |-> <<>>]
    /\ requestTokens = <<>>
    /\ requestQuotas = <<>>
    /\ upstream = [r \in Reqs |-> <<>>]
    /\ branch = [r \in Reqs |-> "none"]
    /\ httpAttrs = [r \in Reqs |-> NilAttrs]
    /\ received = [r \in Reqs |-> <<>>]
    /\ replied = [r \in Reqs |-> <<>>]
    /\ result = <<>>
    /\ requestHeaders = [r \in Reqs |-> <<>>]
    /\ preReset = {}

\* the clock stands still: every request fits in the limits of one second
NextTenants ==
    \/ \E r \in Reqs, path \in TenantPaths : CheckCall(r, path)
    \/ \E r \in Reqs : CheckRun(r)
    \/ \E r \in Reqs, id \in RequestIDs : ProcessRequestHeaders(r, id)
    \/ \E r \in Reqs, status \in {PaidStatus, NotPaidStatus} :
            ProcessResponseHeaders(r, status, TRUE, "ok")

SpecTenants == InitTenants /\ [][NextTenants]_vars

(***************************************************************************)
\* two tenants whose requests carry distinct request ids, with the clock
NextIsolation ==
    \/ Tick
    \/ \E r \in Reqs, path \in TenantPaths : CheckCall(r, path)
    \/ \E r \in Reqs : CheckRun(r)
    \/ \E r \in Reqs : ProcessRequestHeaders(r, UniqueID(r))
    \/ \E r \in Reqs, status \in {PaidStatus, NotPaidStatus} :
            ProcessResponseHeaders(r, status, TRUE, "ok")

SpecIsolation == InitTenants /\ [][NextIsolation]_vars

(***************************************************************************)
(* The operator starts a new period while requests are in flight: the      *)
(* usage key is deleted, and the requests allowed so far are remembered.   *)
(***************************************************************************)
OperatorResetUsage(b) ==
    /\ Has(redis, <<"usage", b>>)
    /\ redis' = Del(redis, <<"usage", b>>)
    /\ expires' = Del(expires, <<"usage", b>>)
    /\ preReset' = {q \in Reqs : response[q].code = "OK"}
    /\ UNCHANGED <<now, pc, botToken, currentTime, response, requestID,
                   requestTokens, requestQuotas, upstream, branch, httpAttrs,
                   received, replied, result, requestHeaders>>

NextReset ==
    \/ Tick
    \/ \E r \in Reqs : CheckCall(r, Path1)
    \/ \E r \in Reqs : CheckRun(r)
    \/ \E r \in Reqs : ProcessRequestHeaders(r, UniqueID(r))
    \/ \E r \in Reqs, status \in {PaidStatus, NotPaidStatus} :
            ProcessResponseHeaders(r, status, TRUE, "ok")
    \/ \E b \in BotIDs : OperatorResetUsage(b)

SpecReset == InitOps /\ [][NextReset]_vars

(***************************************************************************)
(* The Authorizer on its own across second boundaries: every tenant has a  *)
(* rate limit of at least 1 and a quota that never runs out, so the rate   *)
(* stage alone decides.                                                    *)
(***************************************************************************)
InitWindow ==
    /\ now = 0
    /\ \E R \in 1..MaxLimit :
            redis = [k \in LimitKeys |-> IF k[1] = "quota" THEN MaxReq ELSE R]
    /\ expires = <<>>
    /\ pc = [r \in Reqs |-> "new"]
    /\ botToken = [r \in Reqs |-> <<>>]
    /\ currentTime = [r \in Reqs |-> 0]
    /\ response = [r \in Reqs |-> NoResponse]
    /\ requestID = [r \in Reqs |-> <<>>]
    /\ requestTokens = <<>>
    /\ requestQuotas = <<>>
    /\ upstream = [r \in Reqs |-> <<>>]
    /\ branch = [r \in Reqs |-> "none"]
    /\ httpAttrs = [r \in Reqs |-> NilAttrs]
    /\ received = [r \in Reqs |-> <<>>]
    /\ replied = [r \in Reqs |-> <<>>]
    /\ result = <<>>
    /\ requestHeaders = [r \in Reqs |-> <<>>]
    /\ preReset = {}

NextWindow ==
    \/ Tick
    \/ \E r \in Reqs : CheckCall(r, Path1)
    \/ \E r \in Reqs : CheckRun(r)
    \/ \E r \in Reqs : ProcessRequestHeaders(r, UniqueID(r))

SpecWindow == InitWindow /\ [][NextWindow]_vars

(***************************************************************************)
(* The end of a Process stream.  stream.Recv returns an error when the     *)
(* proxy closes or resets the stream (client disconnect, timeout) and      *)
(* Process returns it (lines 52-55); nothing else is done on that path.    *)
(***************************************************************************)
StreamEnds(r) ==
    /\ pc[r] = "forwarded"
    /\ pc' = [pc EXCEPT ![r] = "closed"]
    /\ UNCHANGED <<preReset, now, redis, expires, botToken, currentTime, response,
                   requestID, requestTokens, requestQuotas, upstream, branch,
                   httpAttrs, received, replied, result, requestHeaders>>

NextEnds ==
    \/ Tick
    \/ \E r \in Reqs : CheckCall(r, Path1)
    \/ \E r \in Reqs : CheckRun(r)
    \/ \E r \in Reqs : ProcessRequestHeaders(r, UniqueID(r))
    \/ \E r \in Reqs, status \in {PaidStatus, NotPaidStatus} :
            ProcessResponseHeaders(r, status, TRUE, "ok")
    \/ \E r \in Reqs : StreamEnds(r)

SpecEnds == InitOps /\ [][NextEnds]_vars

\* the step of NextEnds in which the response headers of some forwarded
\* request are processed, written by its effect on pc
ResponseHeadersTaken ==
    \E r \in Reqs : pc[r] = "forwarded" /\ pc' = [pc EXCEPT ![r] = "finished"]

\* the Adjuster does not leave a response-headers message unprocessed for
\* ever: Process handles each message its stream delivers (lines 51-81)
FairEnds == SpecEnds /\ WF_pc(ResponseHeadersTaken)

(***************************************************************************)
(* Vocabulary of the properties.                                           *)
(***************************************************************************)
RateLimitKey(b) == <<"rate_limit", b>>
QuotaKey(b) == <<"quota", b>>
UsageKey(b) == <<"usage", b>>
CounterKey(b, S) == <<"counter", b, S>>
Seconds == 0..Unix(MaxTick)

\* value of key k in keyspace db, 0 when the key is absent
ValueOr0(db, k) == IF k \in DOMAIN db THEN db[k] ELSE 0

\* the tenant of request r, once Check has extracted its token
TenantOf(r) == botIDOf(botToken[r])

\* the step in which the script of request r runs and Check returns
RunStep(r) == pc[r] = "called" /\ pc'[r] # "called"

\* the step in which the Adjuster processes the response headers of r
ResponseStep(r) == pc[r] = "forwarded" /\ pc'[r] = "finished"

Reason(resp) == HeaderValue(resp.headers, "x-rate-limit-reason", "")
RetryAfter(resp) == HeaderValue(resp.headers, "retry-after", "")
Denied429(resp, reason, retryAfter) ==
    /\ resp.code = "PermissionDenied"
    /\ resp.httpStatus = 429
    /\ Reason(resp) = reason
    /\ RetryAfter(resp) = retryAfter

\* the :status of a response-headers message, as an integer
StatusOf(headers) == ParseNat(HeaderValue(headers, ":status", <<>>))
PaidSet == {200, 201, 202, 204, 206, 304}

\* requests of tenant b whose script has run with the counter of second S
RanFor(b, S) ==
    {q \in Reqs : /\ pc[q] \notin {"new", "called"}
                  /\ botToken[q] # <<>>
                  /\ TenantOf(q) = b
                  /\ currentTime[q] = S}
AllowedFor(b, S) == {q \in RanFor(b, S) : response[q].code = "OK"}

(***************************************************************************)
(* Properties.                                                             *)
(***************************************************************************)
\* C1: for every tenant T, in every state reached by Check authorizations
\* and refunds, usage:{T} is non-negative and at most quota:{T}.
C1_UsageWithinQuota ==
    \A b \in BotIDs :
        Has(redis, UsageKey(b)) =>
            /\ Has(redis, QuotaKey(b))
            /\ redis[UsageKey(b)] >= 0
            /\ redis[UsageKey(b)] <= redis[QuotaKey(b)]

\* usage stands at the quota after an authorization that followed a refund
C1_Witness ==
    \E b \in BotIDs :
        /\ Has(redis, UsageKey(b)) /\ Has(redis, QuotaKey(b))
        /\ redis[UsageKey(b)] = redis[QuotaKey(b)]
        /\ redis[QuotaKey(b)] >= 1
        /\ \E r \in Reqs : branch[r] = "reduced"
        /\ \E r \in Reqs : pc[r] = "allowed"

\* C2: for every tenant T and unix second S, the number of Allow decisions
\* of Checks that computed second S is at most rate_limit:{T} (no Allow at
\* all when rate_limit:{T} is absent); the code never refunds a rate slot.
C2_AllowsPerSecondWithinRateLimit ==
    \A b \in BotIDs, S \in Seconds :
        Cardinality(AllowedFor(b, S)) <= ValueOr0(redis, RateLimitKey(b))

\* C3: every counter:{T}:{S} is non-negative and at most rate_limit:{T}.
C3_CounterWithinRateLimit ==
    \A b \in BotIDs, S \in Seconds :
        Has(redis, CounterKey(b, S)) =>
            /\ Has(redis, RateLimitKey(b))
            /\ redis[CounterKey(b, S)] >= 0
            /\ redis[CounterKey(b, S)] <= redis[RateLimitKey(b)]

\* a counter stands at the rate limit
C3_Witness ==
    \E b \in BotIDs, S \in Seconds :
        /\ Has(redis, CounterKey(b, S)) /\ Has(redis, RateLimitKey(b))
        /\ redis[CounterKey(b, S)] = redis[RateLimitKey(b)]
        /\ AllowedFor(b, S) # {}

\* C4: with rate_limit:{T} = R and quota to spare, the Checks that computed
\* the same unix second are allowed while fewer than R of them have run, and
\* every one after the first R is denied with 429, rate_exceeded and
\* retry-after 1.
C4_ExactlyRateLimitAllowed ==
    [][\A r \in Reqs :
        (/\ RunStep(r)
         /\ Has(redis, RateLimitKey(TenantOf(r)))
         /\ Has(redis, QuotaKey(TenantOf(r)))
         /\ ValueOr0(redis, UsageKey(TenantOf(r))) + 1
                <= redis[QuotaKey(TenantOf(r))]) =>
            LET b == TenantOf(r)
                n == Cardinality(RanFor(b, currentTime[r]))
            IN  IF n < redis[RateLimitKey(b)]
                THEN response'[r].code = "OK"
                ELSE Denied429(response'[r], "rate_exceeded", "1")]_vars

C7_AllowIncrementsBoth ==
    [][\A r \in Reqs :
        (RunStep(r) /\ response'[r].code = "OK") =>
            LET kc == CounterKey(TenantOf(r), currentTime[r])
                ku == UsageKey(TenantOf(r))
            IN  redis' = Put(Put(redis, kc, ValueOr0(redis, kc) + 1),
                             ku, ValueOr0(redis, ku) + 1)]_vars

\* a Check has been allowed and its response is back at the proxy
C7_Witness ==
    \E r \in Reqs :
        /\ pc[r] = "allowed"
        /\ Has(redis, UsageKey(TenantOf(r)))
        /\ Has(redis, CounterKey(TenantOf(r), currentTime[r]))

\* C8: a Check denied with rate_exceeded or quota_exceeded leaves usage:{T}
\* as it was (absent, or present with the same value).
C8_DenyKeepsUsage ==
    [][\A r \in Reqs :
        (/\ RunStep(r)
         /\ response'[r].code = "PermissionDenied"
         /\ Reason(response'[r]) \in {"rate_exceeded", "quota_exceeded"}) =>
            LET ku == UsageKey(TenantOf(r))
            IN  /\ Has(redis', ku) <=> Has(redis, ku)
                /\ Has(redis, ku) => redis'[ku] = redis[ku]]_vars

\* a Check was denied with rate_exceeded while usage:{T} exists
C8_Witness ==
    \E r \in Reqs :
        /\ pc[r] = "denied" /\ botToken[r] # <<>>
        /\ Reason(response[r]) = "rate_exceeded"
        /\ Has(redis, UsageKey(TenantOf(r)))
        /\ redis[UsageKey(TenantOf(r))] >= 1

\* C9: processing a response-headers message whose :status is one of 200,
\* 201, 202, 204, 206, 304 leaves the keyspace as it was and does not run
\* the refund script.
C9_PaidStatusNoRefund ==
    [][\A r \in Reqs :
        (ResponseStep(r) /\ StatusOf(upstream'[r]) \in PaidSet) =>
            /\ redis' = redis
            /\ expires' = expires
            /\ branch'[r] \notin {"reduced", "not_found"}]_vars

\* a 304 response with a known correlation was processed and usage is kept
C9_Witness ==
    \E r \in Reqs :
        /\ pc[r] = "finished"
        /\ StatusOf(upstream[r]) = 304
        /\ HasHeader(upstream[r], "x-request-id")
        /\ branch[r] = "paid"
        /\ Has(redis, UsageKey(TenantOf(r)))
        /\ redis[UsageKey(TenantOf(r))] >= 1

\* C10: processing a response-headers message with a :status outside the
\* paid set and a known correlation entry runs the refund script once:
\* usage:{T} of the entry's tenant goes from U to max(0, U - 1), an absent
\* usage:{T} stays absent, and no other key changes.
C10_UnpaidStatusRefundsOnce ==
    [][\A r \in Reqs :
        (/\ ResponseStep(r)
         /\ StatusOf(upstream'[r]) \notin PaidSet
         /\ HasHeader(upstream'[r], "x-request-id")
         /\ Has(requestTokens, requestID[r])) =>
            LET ku == UsageKey(botIDOf(requestTokens[requestID[r]]))
            IN  /\ branch'[r] \in {"reduced", "not_found"}
                /\ Has(redis, ku) =>
                      /\ redis' = Put(redis, ku,
                                      IF redis[ku] >= 1 THEN redis[ku] - 1 ELSE 0)
                      /\ branch'[r] = "reduced"
                /\ ~Has(redis, ku) => redis' = redis]_vars

\* two refunds have run and usage:{T} stands at zero
C10_Witness ==
    \E r \in Reqs :
        /\ pc[r] = "finished"
        /\ StatusOf(upstream[r]) = 500
        /\ branch[r] = "reduced"
        /\ Has(redis, UsageKey(TenantOf(r)))
        /\ redis[UsageKey(TenantOf(r))] = 0
        /\ \A q \in Reqs : branch[q] = "reduced"


\* requests of tenant b that the Authorizer allowed
AllowedOf(b) ==
    {q \in Reqs : response[q].code = "OK" /\ TenantOf(q) = b}

Min(x, y) == IF x <= y THEN x ELSE y

\* C12: the Checks of tenant T that computed second S, however they overlap,
\* act as a sequence of script executions that starts with counter:{T}:{S}
\* at C = 0 (only they write that key) and with usage:{T} at U, the Allows
\* of T's other Checks less the refunds; with rate_limit:{T} = R and
\* quota:{T} = Q, at most min(R - C, Q - U) of them are allowed.
C12_ConcurrentAllowsNoOvershoot ==
    \A b \in BotIDs, S \in Seconds :
        LET A == AllowedFor(b, S)
            R == ValueOr0(redis, RateLimitKey(b))
            Q == ValueOr0(redis, QuotaKey(b))
            U == Cardinality(AllowedOf(b) \ A)
                     - Cardinality({q \in Reqs : branch[q] = "reduced"})
        IN  Cardinality(A) <= Min(R - 0, Q - U)


\* C13: an insertion into the correlation table (request-headers) and a
\* lookup-and-delete (response-headers) on different Process streams never
\* access the table at the same time.
C13_TableAccessesExcluded == Cardinality(InTable) <= 1


\* C14: once a response-headers message that carries request id R has been
\* processed, neither map of the correlation table has an entry for R,
\* whatever the status and however the refund store call ended.
C14_EntryEvictedOnResponseHeaders ==
    [][\A r \in Reqs :
        (ResponseStep(r) /\ HasHeader(upstream'[r], "x-request-id")) =>
            LET R == HeaderValue(upstream'[r], "x-request-id", <<>>)
            IN  /\ ~Has(requestTokens', R)
                /\ ~Has(requestQuotas', R)]_vars

\* a 500 response whose refund call failed has been processed and its entry
\* is gone
C14_Witness ==
    \E r \in Reqs :
        /\ pc[r] = "finished"
        /\ StatusOf(upstream[r]) = 500
        /\ branch[r] = "failed"
        /\ requestID[r] # <<>>
        /\ HeaderValue(upstream[r], "x-request-id", <<>>) = requestID[r]
        /\ ~Has(requestTokens, requestID[r])
        /\ ~Has(requestQuotas, requestID[r])


\* the kind of processing response that answers a message of kind k
ReplyKind(k) == IF k \in {"request_headers", "response_headers"} THEN k
                ELSE "empty"

\* C15: whenever Process receives a message on a stream it sends exactly one
\* processing response on that stream, so the responses follow the messages
\* one for one and in order; a message that is neither request-headers nor
\* response-headers gets the empty response and leaves the correlation
\* table and the store as they were.
C15_OneResponsePerMessage ==
    [][\A r \in Reqs :
        (received'[r] # received[r]) =>
            /\ Len(received'[r]) = Len(received[r]) + 1
            /\ Len(replied'[r]) = Len(received'[r])
            /\ SubSeq(replied'[r], 1, Len(replied[r])) = replied[r]
            /\ \A i \in 1..Len(received'[r]) :
                   replied'[r][i].kind = ReplyKind(received'[r][i])
            /\ received'[r][Len(received'[r])] \in OtherKinds =>
                   /\ replied'[r][Len(replied'[r])] = emptyResponse
                   /\ requestTokens' = requestTokens
                   /\ requestQuotas' = requestQuotas
                   /\ redis' = redis
                   /\ expires' = expires]_vars

\* a stream has carried the request headers, a request body and the
\* response headers, and has answered each of them
C15_Witness ==
    \E r \in Reqs :
        /\ received[r] = <<"request_headers", "request_body", "response_headers">>
        /\ Len(replied[r]) = 3
        /\ replied[r][2] = emptyResponse
        /\ replied[r][3].kind = "response_headers"


\* resp is a Deny with this HTTP status and reason, the reason in
\* x-rate-limit-reason, and this retry-after ("" for no retry-after header)
DeniedAs(resp, httpStatus, reason, retryAfter) ==
    /\ resp.code = "PermissionDenied"
    /\ resp.httpStatus = httpStatus
    /\ HasHeader(resp.headers, "x-rate-limit-reason")
    /\ Reason(resp) = reason
    /\ IF retryAfter = "" THEN ~HasHeader(resp.headers, "retry-after")
       ELSE RetryAfter(resp) = retryAfter

\* the error kind of the script run of request r: a rate breach when
\* rate_limit:{T} is absent or, with both limits present, the counter has no
\* room; otherwise a quota breach when quota:{T} is absent or usage has no
\* room
RateBreach(r) ==
    \/ ~Has(redis, RateLimitKey(TenantOf(r)))
    \/ /\ Has(redis, QuotaKey(TenantOf(r)))
       /\ ValueOr0(redis, CounterKey(TenantOf(r), currentTime[r])) + 1
              > redis[RateLimitKey(TenantOf(r))]
QuotaBreach(r) ==
    /\ ~RateBreach(r)
    /\ \/ ~Has(redis, QuotaKey(TenantOf(r)))
       \/ ValueOr0(redis, UsageKey(TenantOf(r))) + 1
              > redis[QuotaKey(TenantOf(r))]

\* C16: every Deny that Check returns has the wire form of its error kind:
\* no HTTP attributes -> 401, missing_http_attributes, no retry-after; a
\* path without a token -> 401, invalid_bot_token, no retry-after; after
\* the store call, either 500, rate_limit_error, no retry-after (the call
\* failed), or 429 with rate_exceeded and retry-after 1 on a rate breach,
\* or 429 with quota_exceeded and retry-after 3600 on a quota breach; with
\* no breach a Deny is the 500.  x-rate-limit-reason carries the reason.
C16_DenyWireForm ==
    [][\A r \in Reqs :
        (pc[r] \in {"new", "called"} /\ pc'[r] = "denied") =>
            IF pc[r] = "new"
            THEN IF ~httpAttrs'[r].present
                 THEN DeniedAs(response'[r], 401, "missing_http_attributes", "")
                 ELSE DeniedAs(response'[r], 401, "invalid_bot_token", "")
            ELSE \/ DeniedAs(response'[r], 500, "rate_limit_error", "")
                 \/ RateBreach(r)
                      /\ DeniedAs(response'[r], 429, "rate_exceeded", "1")
                 \/ QuotaBreach(r)
                      /\ DeniedAs(response'[r], 429, "quota_exceeded", "3600")]_vars

\* a store failure has been answered with the 500 and a quota breach with
\* the 429 that carries retry-after 3600
C16_Witness ==
    \E r, q \in Reqs :
        /\ pc[r] = "denied" /\ pc[q] = "denied"
        /\ DeniedAs(response[r], 500, "rate_limit_error", "")
        /\ DeniedAs(response[q], 429, "quota_exceeded", "3600")


\* C17: when the store call of Check fails (Check answers with the 500),
\* the Deny is 500 with rate_limit_error and the call has left every key of
\* the store, counter:{T}:{S} and usage:{T} among them, as it was.
C17_StoreFailureMutatesNothing ==
    [][\A r \in Reqs :
        (/\ pc[r] = "called" /\ pc'[r] = "denied"
         /\ response'[r].httpStatus = 500) =>
            /\ DeniedAs(response'[r], 500, "rate_limit_error", "")
            /\ redis' = redis
            /\ expires' = expires]_vars


\* the paths that do not have the form /bot<digits>:<token>/...
MalformedPaths == {PathNoDigits, PathNoColon, PathNoSlash}

\* C18: a Check whose request has HTTP attributes and a path that yields no
\* bot token returns at once with 401 and invalid_bot_token: the script is
\* not run for it, and every key of the store is as it was.
C18_NoTokenDeniedWithoutScript ==
    [][\A r \in Reqs :
        (/\ pc[r] = "new" /\ pc'[r] # "new"
         /\ httpAttrs'[r].present
         /\ httpAttrs'[r].path \in MalformedPaths) =>
            /\ pc'[r] = "denied"
            /\ botToken'[r] = <<>>
            /\ DeniedAs(response'[r], 401, "invalid_bot_token", "")
            /\ redis' = redis
            /\ expires' = expires]_vars

\* a Check with a malformed path was denied after another one was allowed
C18_Witness ==
    \E r, q \in Reqs :
        /\ pc[r] = "denied"
        /\ httpAttrs[r].present /\ httpAttrs[r].path \in MalformedPaths
        /\ DeniedAs(response[r], 401, "invalid_bot_token", "")
        /\ pc[q] = "allowed"
        /\ Has(redis, UsageKey(TenantOf(q)))


\* the store after one run of the refund script for tenant b
RefundedOnce(db, b) ==
    IF Has(db, UsageKey(b))
    THEN Put(db, UsageKey(b),
             IF db[UsageKey(b)] >= 1 THEN db[UsageKey(b)] - 1 ELSE 0)
    ELSE db

\* the step answers the newest message of the stream of r with a response
\* of kind k
Answered(r, k) ==
    /\ Len(replied'[r]) = Len(replied[r]) + 1
    /\ Len(replied'[r]) = Len(received'[r])
    /\ replied'[r][Len(replied'[r])].kind = k

\* C19 as stated: when the refund store call fails, the response-headers
\* reply is still sent and usage:{T} (the whole store) is left as it was.
C19_FailedRefundKeepsUsage ==
    [][\A r \in Reqs :
        (ResponseStep(r) /\ branch'[r] = "failed") =>
            /\ Answered(r, "response_headers")
            /\ redis' = redis]_vars

\* C19 as amended: when the refund store call fails, the response-headers
\* reply is still sent, and the store is either as it was or as one run of
\* the refund script leaves it (the script had run when the call failed);
\* the stream goes on: every later message on it is answered, and none of
\* them touches the store, so the refund is not tried again.
C19_FailedRefundSwallowed ==
    [][\A r \in Reqs :
        /\ (ResponseStep(r) /\ branch'[r] = "failed") =>
              /\ Answered(r, "response_headers")
              /\ redis' \in {redis, RefundedOnce(redis, TenantOf(r))}
        /\ (branch[r] = "failed" /\ received'[r] # received[r]) =>
              /\ Answered(r, "empty")
              /\ redis' = redis]_vars

\* a refund call failed with usage:{T} left at 1, and the stream has since
\* answered the response body
C19_Witness ==
    \E r \in Reqs :
        /\ branch[r] = "failed"
        /\ StatusOf(upstream[r]) = 500
        /\ received[r] = <<"request_headers", "response_headers", "response_body">>
        /\ Len(replied[r]) = 3
        /\ Has(redis, UsageKey(TenantOf(r)))
        /\ redis[UsageKey(TenantOf(r))] = 1


\* C20: on every Allow, x-quota-remaining is the decimal form of quota:{T}
\* minus usage:{T} as the script has just left them, which is not negative,
\* and x-quota-limit is the decimal form of quota:{T}.
C20_QuotaHeadersOnAllow ==
    [][\A r \in Reqs :
        (RunStep(r) /\ response'[r].code = "OK") =>
            LET Q == redis'[QuotaKey(TenantOf(r))]
                U == redis'[UsageKey(TenantOf(r))]
                remaining == HeaderValue(response'[r].headers,
                                         "x-quota-remaining", <<>>)
                limit == HeaderValue(response'[r].headers,
                                     "x-quota-limit", <<>>)
            IN  /\ Q - U >= 0
                /\ remaining = FormatInt(Q - U)
                /\ Atoi(remaining) = [err |-> FALSE, code |-> Q - U]
                /\ limit = FormatInt(Q)
                /\ Atoi(limit) = [err |-> FALSE, code |-> Q]]_vars

\* an Allow that used up the quota carries x-quota-remaining 0 and the limit
C20_Witness ==
    \E r \in Reqs :
        /\ pc[r] = "allowed"
        /\ redis[QuotaKey(TenantOf(r))] = MaxLimit
        /\ redis[UsageKey(TenantOf(r))] = MaxLimit
        /\ HeaderValue(response[r].headers, "x-quota-remaining", <<>>) = <<"0">>
        /\ HeaderValue(response[r].headers, "x-quota-limit", <<>>)
               = FormatInt(MaxLimit)


\* C21: on every Allow, x-rate-limit is the decimal form of the value of
\* rate_limit:{T} that the script read.
C21_RateLimitHeaderOnAllow ==
    [][\A r \in Reqs :
        (RunStep(r) /\ response'[r].code = "OK") =>
            HeaderValue(response'[r].headers, "x-rate-limit", <<>>)
                = FormatInt(redis[RateLimitKey(TenantOf(r))])]_vars


\* C22: once at least 2 seconds have passed since second S, counter:{T}:{S}
\* is absent; nothing but its TTL removes it (no action of either service
\* deletes a counter).
C22_CounterGoneAfterTwoSeconds ==
    \A b \in BotIDs, S \in Seconds :
        Unix(now) >= S + 2 => ~Has(redis, CounterKey(b, S))


\* the three headers the Adjuster mirrors onto the client response
MirroredNames == {"x-quota-remaining", "x-quota-limit", "x-rate-limit"}
LastReply(r) == replied'[r][Len(replied'[r])]
MirrorsNothing(set) ==
    /\ Len(set) = 3
    /\ \A h \in MirroredNames : HasHeader(set, h) /\ HeaderValue(set, h, "") = <<>>
\* set carries the three limit headers request q was forwarded with
Mirrors(set, q) ==
    /\ Len(set) = 3
    /\ \A h \in MirroredNames :
           /\ HasHeader(set, h)
           /\ HeaderValue(set, h, "") = HeaderValue(response[q].headers, h, <<>>)

C24_UsagePersistsAcrossSeconds ==
    [][/\ \A b \in BotIDs :
            /\ UsageKey(b) \notin DOMAIN expires'
            /\ now' # now =>
                   /\ Has(redis', UsageKey(b)) = Has(redis, UsageKey(b))
                   /\ ValueOr0(redis', UsageKey(b)) = ValueOr0(redis, UsageKey(b))
       /\ \A r \in Reqs :
            (RunStep(r) /\ response'[r].httpStatus # 500 /\ QuotaBreach(r)) =>
                /\ Denied429(response'[r], "quota_exceeded", "3600")
                /\ ValueOr0(redis', UsageKey(TenantOf(r)))
                       = ValueOr0(redis, UsageKey(TenantOf(r)))]_vars
\* request 1 allowed in second 0, request 2 run two seconds later and denied
\* for quota, usage still at the quota of 1
C24_Witness ==
    /\ response[1].code = "OK" /\ currentTime[1] = 0 /\ branch[1] # "reduced"
    /\ pc[2] = "denied" /\ currentTime[2] = 2 /\ now = 2
    /\ Denied429(response[2], "quota_exceeded", "3600")
    /\ TenantOf(1) = TenantOf(2)
    /\ Has(redis, UsageKey(TenantOf(2))) /\ redis[UsageKey(TenantOf(2))] = 1
    /\ redis[QuotaKey(TenantOf(2))] = 1


\* both limits of the tenant of r are provisioned
Provisioned(r) ==
    /\ Has(redis, RateLimitKey(TenantOf(r)))
    /\ Has(redis, QuotaKey(TenantOf(r)))
RateRoom(r) ==
    ValueOr0(redis, CounterKey(TenantOf(r), currentTime[r])) + 1
        <= redis[RateLimitKey(TenantOf(r))]
QuotaExhausted(r) ==
    ValueOr0(redis, UsageKey(TenantOf(r))) + 1 > redis[QuotaKey(TenantOf(r))]

\* C25: the rate is checked and charged before the quota.  A Check with rate
\* room and exhausted quota adds 1 to counter:{T}:{S}, gives it a TTL of 1 s,
\* changes nothing else (usage included) and denies 429 quota_exceeded; a
\* Check with rate and quota both exhausted denies 429 rate_exceeded and
\* changes no key and no TTL.
C25_RateChargedBeforeQuota ==
    [][\A r \in Reqs :
        (RunStep(r) /\ Provisioned(r) /\ QuotaExhausted(r)) =>
            LET c == CounterKey(TenantOf(r), currentTime[r])
            IN  IF RateRoom(r)
                THEN /\ redis' = Put(redis, c, ValueOr0(redis, c) + 1)
                     /\ expires' = Put(expires, c, now + TicksPerSec)
                     /\ Denied429(response'[r], "quota_exceeded", "3600")
                ELSE /\ redis' = redis
                     /\ expires' = expires
                     /\ Denied429(response'[r], "rate_exceeded", "1")]_vars
\* request 1 took the rate slot of its second and was denied for quota;
\* request 2 then found rate and quota both exhausted
C25_Witness ==
    /\ pc[1] = "denied" /\ pc[2] = "denied"
    /\ Denied429(response[1], "quota_exceeded", "3600")
    /\ Denied429(response[2], "rate_exceeded", "1")
    /\ currentTime[1] = currentTime[2] /\ TenantOf(1) = TenantOf(2)
    /\ Has(redis, CounterKey(TenantOf(1), currentTime[1]))
    /\ redis[CounterKey(TenantOf(1), currentTime[1])] = 1
    /\ redis[RateLimitKey(TenantOf(1))] = 1
    /\ redis[QuotaKey(TenantOf(1))] = 0
    /\ ~Has(redis, UsageKey(TenantOf(1)))


\* the rate counters of keyspace db and the expiry times of table ex
CountersOf(db) == {k \in DOMAIN db : k[1] = "counter"}
CounterTTLsOf(ex) == {k \in DOMAIN ex : k[1] = "counter"}

\* C26: processing a response-headers message, whether it refunds or not and
\* however the store call ends, leaves every rate counter and every counter
\* TTL as it was: the refunded request still counts in its second.
C26_RefundLeavesCounters ==
    [][\A r \in Reqs :
        ResponseStep(r) =>
            /\ CountersOf(redis') = CountersOf(redis)
            /\ \A k \in CountersOf(redis) : redis'[k] = redis[k]
            /\ CounterTTLsOf(expires') = CounterTTLsOf(expires)
            /\ \A k \in CounterTTLsOf(expires) : expires'[k] = expires[k]]_vars
\* request 1 was refunded within its second: usage is back to 0 while the
\* counter of that second still holds its slot and its TTL
C26_Witness ==
    /\ pc[1] = "finished" /\ branch[1] = "reduced"
    /\ Unix(now) = currentTime[1]
    /\ Has(redis, CounterKey(TenantOf(1), currentTime[1]))
    /\ redis[CounterKey(TenantOf(1), currentTime[1])] = 1
    /\ Has(expires, CounterKey(TenantOf(1), currentTime[1]))
    /\ redis[UsageKey(TenantOf(1))] = 0


\* C27: the refund script run on an absent usage:{T} replies (0, 0) and
\* leaves the keyspace as it was, the key not created; run on a present key
\* of value U it stores max(0, U - 1), replies (1, that value) and changes no
\* other key, so at U = 0 the value stays 0.
C27_RefundScriptContract ==
    [][\A b \in BotIDs :
        now' = now =>
            IF ~Has(redis, UsageKey(b))
            THEN /\ result' = <<0, 0>>
                 /\ redis' = redis
                 /\ ~Has(redis', UsageKey(b))
            ELSE LET U == redis[UsageKey(b)]
                     V == IF U >= 1 THEN U - 1 ELSE 0
                 IN  /\ result' = <<1, V>>
                     /\ redis' = Put(redis, UsageKey(b), V)
                     /\ U = 0 => redis'[UsageKey(b)] = 0]_vars
\* the script has run on usage 0: the reply is (1, 0) and the key holds 0
C27_Witness ==
    \E b \in BotIDs :
        /\ result = <<1, 0>>
        /\ Has(redis, UsageKey(b)) /\ redis[UsageKey(b)] = 0
        /\ now = 0


\* s writes an integer: an optional sign, then one or more decimal digits
IsInteger(s) ==
    \E k \in 0..1 :
        /\ Len(s) > k
        /\ k = 1 => s[1] \in {"+", "-"}
        /\ \A i \in (k + 1)..Len(s) : s[i] \in Digits

\* C28: a response-headers message whose :status is absent or is not an
\* integer is handled as a paid response: the store is left as it was (no
\* refund) although the table holds an entry for its request id, and that
\* entry is removed from both maps.
C28_StatusDefaultsToPaid ==
    [][\A r \in Reqs :
        ResponseStep(r) =>
            LET h == upstream'[r]
                id == HeaderValue(h, "x-request-id", <<>>)
            IN  (\/ ~HasHeader(h, ":status")
                 \/ ~IsInteger(HeaderValue(h, ":status", <<>>))) =>
                    /\ redis' = redis
                    /\ expires' = expires
                    /\ Answered(r, "response_headers")
                    /\ id # <<>> =>
                           /\ ~Has(requestTokens', id)
                           /\ ~Has(requestQuotas', id)]_vars
\* the response of request 1 came without :status while its entry was in the
\* table: the charge of its Allow is kept and the entry is gone
C28_Witness ==
    /\ pc[1] = "finished"
    /\ ~HasHeader(upstream[1], ":status")
    /\ HeaderValue(upstream[1], "x-request-id", <<>>) = UniqueID(1)
    /\ branch[1] = "paid"
    /\ redis[UsageKey(TenantOf(1))] = 1
    /\ ~Has(requestTokens, UniqueID(1))


\* the step in which the Adjuster processes the request headers of r
RequestStep(r) == pc[r] = "allowed" /\ pc'[r] = "forwarded"

\* C29: a request-headers message stores an entry under its request id only
\* when x-bot-token and x-request-id are both present and non-empty: the
\* entry then names the tenant (the token's prefix before the first colon)
\* and holds the three limit headers of the message; otherwise both maps
\* are as they were.  Either way the reply is a request-headers response
\* without mutation and the store is untouched.
C29_EntryStoredOnlyWithTokenAndID ==
    [][\A r \in Reqs :
        RequestStep(r) =>
            LET h == requestHeaders'[r]
                token == HeaderValue(h, "x-bot-token", <<>>)
                id == HeaderValue(h, "x-request-id", <<>>)
            IN  /\ IF /\ HasHeader(h, "x-bot-token") /\ token # <<>>
                      /\ HasHeader(h, "x-request-id") /\ id # <<>>
                   THEN /\ DOMAIN requestTokens' = DOMAIN requestTokens \cup {id}
                        /\ DOMAIN requestQuotas' = DOMAIN requestQuotas \cup {id}
                        /\ \A k \in DOMAIN requestTokens \ {id} :
                               /\ requestTokens'[k] = requestTokens[k]
                               /\ requestQuotas'[k] = requestQuotas[k]
                        /\ botIDOf(requestTokens'[id]) = botIDOf(token)
                        /\ requestQuotas'[id]
                               = [remaining |-> HeaderValue(h, "x-quota-remaining", <<>>),
                                  limit |-> HeaderValue(h, "x-quota-limit", <<>>),
                                  rate |-> HeaderValue(h, "x-rate-limit", <<>>)]
                   ELSE /\ requestTokens' = requestTokens
                        /\ requestQuotas' = requestQuotas
                /\ Answered(r, "request_headers")
                /\ LastReply(r).setHeaders = <<>>
                /\ redis' = redis
                /\ expires' = expires]_vars
\* request 1 came with both headers and left an entry for tenant 1 with its
\* limit headers; request 2 came without x-bot-token and left none
C29_Witness ==
    /\ pc[1] = "forwarded" /\ pc[2] = "forwarded"
    /\ HasHeader(requestHeaders[1], "x-bot-token")
    /\ Has(requestTokens, UniqueID(1))
    /\ botIDOf(requestTokens[UniqueID(1)]) = <<"1">>
    /\ requestQuotas[UniqueID(1)].limit = FormatInt(MaxReq)
    /\ ~HasHeader(requestHeaders[2], "x-bot-token")
    /\ HeaderValue(requestHeaders[2], "x-request-id", <<>>) = UniqueID(2)
    /\ ~Has(requestTokens, UniqueID(2))
    /\ Len(replied[2]) = 1 /\ replied[2][1].setHeaders = <<>>


\* the step in which a response-headers message of r arrives a second time
RepeatStep(r) == pc[r] = "finished" /\ pc'[r] = "repeated"

\* C30: a response-headers message for which the table holds no entry (its
\* x-request-id is missing, was never stored, or was consumed by an earlier
\* response-headers message) is answered like any other and changes neither
\* the store nor the table; so a response-headers message that arrives twice
\* changes the store at most the first time.
C30_NoEntryNoRefund ==
    [][\A r \in Reqs :
        (ResponseStep(r) \/ RepeatStep(r)) =>
            LET id == HeaderValue(upstream'[r], "x-request-id", <<>>)
            IN  /\ (id = <<>> \/ ~Has(requestTokens, id)) =>
                       /\ redis' = redis
                       /\ expires' = expires
                       /\ requestTokens' = requestTokens
                       /\ requestQuotas' = requestQuotas
                       /\ Answered(r, "response_headers")
                /\ RepeatStep(r) =>
                       /\ upstream'[r] = upstream[r]
                       /\ redis' = redis]_vars
\* the 500 of request 1 was refunded, request 2 was then allowed and charged,
\* and the 500 of request 1 arrived again: the charge of request 2 stands
C30_Witness ==
    /\ pc[1] = "repeated" /\ branch[1] = "no_token"
    /\ upstream[1] = << <<":status", <<"5", "0", "0">> >>,
                        <<"x-request-id", UniqueID(1)>> >>
    /\ response[2].code = "OK" /\ pc[2] \in {"allowed", "forwarded"}
    /\ redis[UsageKey(TenantOf(2))] = 1


\* path has the form /bot<digits>:<token characters>/..., its colon at
\* position i and the slash that ends the token at position j
HasTokenForm(path, i, j) ==
    /\ Len(path) >= j /\ 5 < i /\ i + 1 < j
    /\ SubSeq(path, 1, 4) = <<"/", "b", "o", "t">>
    /\ \A k \in 5..(i - 1) : path[k] \in Digits
    /\ path[i] = ":"
    /\ \A k \in (i + 1)..(j - 1) : path[k] \in TokenChars
    /\ path[j] = "/"

\* C31: Check takes a token from exactly the paths of the form
\* /bot<one or more digits>:<one or more of A-Z a-z 0-9 _ ->/...; the token
\* is the part between "/bot" and that slash and the tenant its digits
\* before the colon; nothing need follow the slash.  Every other path is
\* denied 401 with invalid_bot_token.
C31_TokenExtractionExact ==
    [][\A r \in Reqs :
        (pc[r] = "new" /\ pc'[r] # "new" /\ httpAttrs'[r].present) =>
            LET path == httpAttrs'[r].path
            IN  IF \E i, j \in 1..Len(path) : HasTokenForm(path, i, j)
                THEN \E i, j \in 1..Len(path) :
                        /\ HasTokenForm(path, i, j)
                        /\ pc'[r] = "called"
                        /\ botToken'[r] = SubSeq(path, 5, j - 1)
                        /\ botIDOf(botToken'[r]) = SubSeq(path, 5, i - 1)
                ELSE /\ pc'[r] = "denied"
                     /\ botToken'[r] = <<>>
                     /\ DeniedAs(response'[r], 401, "invalid_bot_token", "")]_vars
\* the path /bot12:A/ , with nothing after the token, gave tenant 12
C31_Witness ==
    /\ pc[1] = "called"
    /\ httpAttrs[1].path = <<"/", "b", "o", "t", "1", "2", ":", "A", "/">>
    /\ botToken[1] = <<"1", "2", ":", "A">>
    /\ botIDOf(botToken[1]) = <<"1", "2">>


\* C32: once the stream of a request is cancelled while its refund store
\* call is pending, the handler gives the call up: the step that ends the
\* handler leaves the store as it was, and the refund is not made later.
C32_CancelledRefundAbandoned ==
    [][\A r \in Reqs :
        (pc[r] = "cancelled" /\ pc'[r] # "cancelled") =>
            /\ redis' = redis
            /\ expires' = expires]_vars


\* the status a response-headers message is processed with
EffectiveStatus(headers) ==
    IF HasHeader(headers, ":status")
           /\ IsInteger(HeaderValue(headers, ":status", <<>>))
    THEN StatusOf(headers) ELSE 200
\* allowed requests of tenant b whose response has not been processed
InFlight(b) == {q \in AllowedOf(b) : pc[q] \in {"allowed", "forwarded"}}
\* allowed requests of tenant b whose response was processed as paid
PaidFor(b) ==
    {q \in AllowedOf(b) : /\ pc[q] = "finished"
                          /\ EffectiveStatus(upstream[q]) \in PaidSet}

C34_RefundHitsOwnTenant ==
    [][\A r \in Reqs :
        ResponseStep(r) =>
            \A k \in DOMAIN redis \cup DOMAIN redis' :
                k # UsageKey(TenantOf(r)) =>
                    /\ k \in DOMAIN redis /\ k \in DOMAIN redis'
                    /\ redis'[k] = redis[k]]_vars


\* C35: every correlation entry is eventually removed from both maps, also
\* when the stream of its request ends before a response-headers message
\* for its request id has arrived.
C35_EntryEventuallyRemoved ==
    \A r \in Reqs :
        (Has(requestTokens, UniqueID(r)) \/ Has(requestQuotas, UniqueID(r)))
            ~> (~Has(requestTokens, UniqueID(r)) /\ ~Has(requestQuotas, UniqueID(r)))


\* the keys of tenant b that a Check computing second S works on
CheckKeys(b, S) ==
    {RateLimitKey(b), QuotaKey(b), CounterKey(b, S), UsageKey(b)}
\* key k has the same presence, value and expiry before and after the step
KeyUntouched(k) ==
    /\ Has(redis', k) = Has(redis, k)
    /\ Has(redis, k) => redis'[k] = redis[k]
    /\ Has(expires', k) = Has(expires, k)
    /\ Has(expires, k) => expires'[k] = expires[k]
AllKeys == DOMAIN redis \cup DOMAIN redis' \cup DOMAIN expires \cup DOMAIN expires'

ChargedSinceReset(b) ==
    (InFlight(b) \cup PaidFor(b)) \ preReset

\* C37: when the operator deletes usage:{T} while an allowed request is in
\* flight, the later refund for that request does not take away what the
\* requests allowed after the reset were charged: usage:{T} is never less
\* than the number of those requests that are in flight or paid.
C37_LateRefundSparesNewPeriod ==
    \A b \in BotIDs :
        ValueOr0(redis, UsageKey(b)) >= Cardinality(ChargedSinceReset(b))


\* the step in which Check of request r reads the clock
CallStep(r) == pc[r] = "new" /\ pc'[r] = "called"
\* counter:{b}:{S} keeps its presence and its value in the step
CounterKept(b, S) ==
    /\ Has(redis', CounterKey(b, S)) = Has(redis, CounterKey(b, S))
    /\ ValueOr0(redis', CounterKey(b, S)) = ValueOr0(redis, CounterKey(b, S))

ReplyStep(r) ==
    /\ Len(replied'[r]) = Len(replied[r]) + 1
    /\ LastReply(r).kind = "response_headers"
\* what processResponse has come to when it returns
Settled == {"paid", "reduced", "not_found", "failed"}

\* C39: when the reply to a response-headers message is sent, the entry of
\* its request id is gone from both maps and the refund has been decided:
\* the response was paid, or the refund script has run or failed.  Nothing
\* is refunded for a request after its reply.
C39_RefundBeforeReply ==
    [][\A r \in Reqs :
        /\ ReplyStep(r) =>
            LET id == HeaderValue(upstream'[r], "x-request-id", <<>>)
            IN  /\ branch'[r] \in Settled
                /\ ~Has(requestTokens', id)
                /\ ~Has(requestQuotas', id)
        /\ (pc[r] = "finished" /\ Len(replied[r]) > 0) =>
               branch'[r] = branch[r]]_vars

\* the reply to a response with a status that is not paid has been sent and
\* the refund was made while it was held back
C39_Witness ==
    \E r \in Reqs :
        /\ pc[r] = "finished"
        /\ branch[r] = "reduced"
        /\ Len(replied[r]) > 0
        /\ replied[r][Len(replied[r])].kind = "response_headers"
        /\ StatusOf(upstream[r]) = 500
        /\ ~Has(requestTokens, requestID[r])


\* x-quota-remaining of a CheckResponse, as an integer
RemainingOf(resp) ==
    Atoi(HeaderValue(resp.headers, "x-quota-remaining", <<>>)).code

\* C40: while quota:{T} stays as it is and nothing is refunded or reset,
\* every Allow for T carries an x-quota-remaining below that of every Allow
\* for T the store has served before it, whatever the order in which the
\* Checks were called; no two Allows carry the same value.
C40_RemainingStrictlyDecreases ==
    [][\A r \in Reqs :
        (RunStep(r) /\ response'[r].code = "OK") =>
            \A q \in AllowedOf(TenantOf(r)) :
                /\ q # r
                /\ RemainingOf(response'[r]) < RemainingOf(response[q])]_vars

\* two Checks ran while both were pending, the later call was served first:
\* both are allowed and the earlier call carries the smaller remainder
C40_Witness ==
    \E r, q \in Reqs :
        /\ r < q
        /\ response[r].code = "OK" /\ response[q].code = "OK"
        /\ TenantOf(r) = TenantOf(q)
        /\ currentTime[r] < currentTime[q]
        /\ RemainingOf(response[r]) < RemainingOf(response[q])

====
